---------------------------- MODULE Spec2Model ----------------------------
(***************************************************************************)
(* A model of the Cadoz gift recommender: the request pipeline of          *)
(* logic.suggest_products_logic (embedding-model cache, session handling,  *)
(* preference merge, candidate scoring, preference filter, re-ranking) and *)
(* the session manager of session.py.                                      *)
(*                                                                         *)
(* Conventions.                                                            *)
(*   - A Python str that the code lower-cases or searches for a substring  *)
(*     is a tuple of one-character strings, so that str.lower() and `in`   *)
(*     are computed and not assumed.  Other strings are TLA+ strings.      *)
(*   - A missing dict key of a preference record is the empty string (or   *)
(*     the empty set for `interests`); the code never stores an empty      *)
(*     value under a preference key.                                       *)
(*   - Similarities and scores are integers: a similarity is counted in    *)
(*     hundredths, a final_score in ten-thousandths.                       *)
(***************************************************************************)
EXTENDS Integers, Sequences, FiniteSets, TLC

VARIABLES
    \* ---- filter_products_by_preferences applied to drawn inputs
    f_pc, f_products, f_preferences, f_result,
    \* ---- re_rank_products applied to drawn inputs
    r_pc, r_products, r_preferences, r_now, r_result,
    \* ---- the preference merge of suggest_products_logic applied to drawn inputs
    m_pc, m_fresh, m_session, m_result, m_stored,
    \* ---- one SessionManager and its storage, driven operation by operation
    sm_sessions, sm_last_cleanup, sm_clock, sm_created, sm_returned,
    \* ---- the request pipeline (one entry per worker thread)
    pc, question, session_id, top_k, model, storage, session_context,
    preferences, products, now, results, filtered_results, top_results,
    response,
    \* ---- process-wide state
    cache, constructed,
    \* ---- history of the run (what was submitted, in order)
    submitted, requests,
    \* ---- understanding.extract_context applied to drawn questions
    x_pc, x_question, x_context,
    \* ---- calls on one SessionManager that run side by side
    c_thread, c_detached, c_deleted, c_begun

filterVars == <<f_pc, f_products, f_preferences, f_result>>
rankVars == <<r_pc, r_products, r_preferences, r_now, r_result>>
mergeVars == <<m_pc, m_fresh, m_session, m_result, m_stored>>
managerVars == <<sm_sessions, sm_last_cleanup, sm_clock, sm_created, sm_returned>>
threadVars == <<pc, question, session_id, top_k, model, storage,
                session_context, preferences, products, now, results,
                filtered_results, top_results, response>>
processVars == <<cache, constructed>>
runVars == <<submitted, requests>>
extractVars == <<x_pc, x_question, x_context>>
raceVars == <<c_thread, c_detached, c_deleted, c_begun>>
vars == <<filterVars, rankVars, mergeVars, managerVars, threadVars, processVars, runVars,
         extractVars, raceVars>>

-----------------------------------------------------------------------------
(* Bounds of the model *)

\* longest candidate list handed to filter_products_by_preferences
MaxCandidates == 2
\* longest candidate list handed to re_rank_products
MaxRanked == 3
\* longest list of interests a preference record holds
MaxInterests == 2
\* number of sessions a driven SessionManager creates
MaxSessions == 2
\* number of sessions created on the SessionManager whose sessions are updated
MaxUpdatedSessions == 1
\* latest time, in seconds after the construction of the driven
\* SessionManager, at which an operation is called on it
MaxClock == 90001
\* number of requests a run submits
MaxRequests == 2
\* number of requests a run submits on one session
MaxSessionRequests == 6
\* number of requests a run with two worker threads submits
MaxConcurrentRequests == 3

\* number of phrases a drawn question is made of
MaxPhrases == 2

\* number of sessions created, and of calls begun, while calls run side by side
MaxRaceSessions == 1
MaxCalls == 3

-----------------------------------------------------------------------------
(* Strings *)

s_male == <<"m", "a", "l", "e">>
s_Male == <<"M", "a", "l", "e">>
s_female == <<"f", "e", "m", "a", "l", "e">>
s_unisex == <<"u", "n", "i", "s", "e", "x">>
s_children == <<"c", "h", "i", "l", "d", "r", "e", "n">>
s_kids == <<"k", "i", "d", "s">>
s_Kids36 == <<"K", "i", "d", "s", " ", "3", "-", "6">>
s_teen == <<"t", "e", "e", "n">>
s_teens == <<"t", "e", "e", "n", "s">>
s_adult == <<"a", "d", "u", "l", "t">>
s_empty == <<>>

\* str.lower() on the letters the model's strings use
LowerChar(c) ==
    CASE c = "M" -> "m"
      [] c = "K" -> "k"
      [] c = "U" -> "u"
      [] c = "F" -> "f"
      [] OTHER -> c

Lower(s) == [i \in DOMAIN s |-> LowerChar(s[i])]

\* Python's `sub in s` on strings
Contains(sub, s) ==
    \E i \in 0..(Len(s) - Len(sub)) : SubSeq(s, i + 1, i + Len(sub)) = sub

\* str.lower() on the tags and occasions of the model's catalog
LowerStr(s) ==
    CASE s = "Watches" -> "watches"
      [] s = "Birthday" -> "birthday"
      [] OTHER -> s

\* all sequences over S of length at most n
RECURSIVE SeqsUpTo(_, _)
SeqsUpTo(S, n) ==
    IF n = 0 THEN {<<>>}
    ELSE LET shorter == SeqsUpTo(S, n - 1)
         IN shorter \cup {Append(s, x) : s \in {t \in shorter : Len(t) = n - 1}, x \in S}

\* the elements of a sequence
Range(s) == {s[i] : i \in DOMAIN s}

-----------------------------------------------------------------------------
(* Product fields that are "either a scalar or a list" *)

\* a list value, a scalar value, or a missing key / None
ListOf(items) == [kind |-> "list", items |-> items]
Scalar(v) == [kind |-> "scalar", items |-> <<v>>]
Missing == [kind |-> "missing", items |-> <<>>]

\* isinstance(v, list)
IsList(v) == v.kind = "list"
\* bool(v): a non-empty list or a non-empty string
Truthy(v) == \/ v.kind = "list" /\ v.items # <<>>
             \/ v.kind = "scalar" /\ v.items[1] # ""
\* dict.get(key, []) of a field
GetOrEmptyList(v) == IF v.kind = "missing" THEN ListOf(<<>>) ELSE v

-----------------------------------------------------------------------------
(* Preference records *)

NoPreferences ==
    [gender |-> s_empty, age_group |-> s_empty, occasion |-> "",
     interests |-> {}, price_range |-> ""]

\* `not preferences`: the dict has no key
IsEmptyPreferences(p) == p = NoPreferences

BudgetMaxPrice == 300
PremiumMinPrice == 500

-----------------------------------------------------------------------------
(* filter_products_by_preferences *)

\* the value of `continue` in the loop body
Excluded == -1

GenderExcludes_NoHardFilter(prod, prefs) == FALSE

\* lines 306-313: the product is for the wrong gender and is skipped
GenderExcludes(prod, prefs) ==
    LET target_gender == Lower(prod.targetGender)
    IN /\ prefs.gender # s_empty
       /\ ~(target_gender = prefs.gender \/ target_gender = s_unisex)
       /\ target_gender # s_empty /\ target_gender # s_unisex

\* lines 306-309
GenderScore(prod, prefs) ==
    LET target_gender == Lower(prod.targetGender)
    IN IF /\ prefs.gender # s_empty
          /\ (target_gender = prefs.gender \/ target_gender = s_unisex)
       THEN 3 ELSE 0

\* lines 316-322: children were asked for and the product's age group, which
\* is not empty, names neither children nor kids
AgeExcludes(prod, prefs) ==
    /\ prefs.age_group # s_empty /\ prod.ageGroup # s_empty
    /\ prefs.age_group = s_children
    /\ ~(Contains(s_children, Lower(prod.ageGroup))
         \/ Contains(s_kids, Lower(prod.ageGroup)))

\* lines 316-324
AgeScore(prod, prefs) ==
    IF prefs.age_group # s_empty /\ prod.ageGroup # s_empty
    THEN IF prefs.age_group = s_children
         THEN IF Contains(s_children, Lower(prod.ageGroup))
                 \/ Contains(s_kids, Lower(prod.ageGroup))
              THEN 3 ELSE 0
         ELSE IF Contains(prefs.age_group, Lower(prod.ageGroup)) THEN 2 ELSE 0
    ELSE 0

\* lines 328-332 and 339-343: the lower-cased values of a list-or-scalar field
LoweredValues(v) ==
    IF IsList(v) THEN [i \in DOMAIN v.items |-> LowerStr(v.items[i])]
    ELSE IF Truthy(v) THEN <<LowerStr(v.items[1])>>
    ELSE <<>>

\* lines 327-335
OccasionScore(prod, prefs) ==
    IF prefs.occasion # "" /\ prefs.occasion \in Range(LoweredValues(prod.occasion))
    THEN 4 ELSE 0

\* lines 338-347: +2 for every interest found among the tags
InterestsScore(prod, prefs) ==
    2 * Cardinality({i \in prefs.interests : i \in Range(LoweredValues(prod.tags))})

\* lines 350-355
PriceScore(prod, prefs) ==
    IF prefs.price_range = "budget" /\ prod.price <= BudgetMaxPrice THEN 2
    ELSE IF prefs.price_range = "premium" /\ prod.price >= PremiumMinPrice THEN 2
    ELSE 0

\* lines 303-355: one pass of the loop body: Excluded, or the score
PreferenceScore(prod, prefs) ==
    IF GenderExcludes(prod, prefs) THEN Excluded
    ELSE IF AgeExcludes(prod, prefs) THEN Excluded
    ELSE GenderScore(prod, prefs) + AgeScore(prod, prefs)
         + OccasionScore(prod, prefs) + InterestsScore(prod, prefs)
         + PriceScore(prod, prefs)

\* lines 358-362: prod.copy() with the score added
WithPreferenceScore(prod, score) ==
    [k \in DOMAIN prod \cup {"preference_score"} |->
        IF k = "preference_score" THEN score ELSE prod[k]]

\* lines 301-362: the list `filtered` after the loop
RECURSIVE FilterLoop(_, _)
FilterLoop(prods, prefs) ==
    IF prods = <<>> THEN <<>>
    ELSE LET prod == Head(prods)
             score == PreferenceScore(prod, prefs)
             rest == FilterLoop(Tail(prods), prefs)
         IN IF score > 0
            THEN <<WithPreferenceScore(prod, score)>> \o rest
            ELSE rest

filter_products_by_preferences_NoFallback(prods, prefs) ==
    IF IsEmptyPreferences(prefs) THEN prods ELSE FilterLoop(prods, prefs)

\* lines 287-365
filter_products_by_preferences(prods, prefs) ==
    IF IsEmptyPreferences(prefs) THEN prods
    ELSE LET filtered == FilterLoop(prods, prefs)
         IN IF filtered # <<>> THEN filtered ELSE prods


-----------------------------------------------------------------------------
(* Season and occasion normalisation, the calendar *)

\* line 389: str(val).strip().lower().replace('_', '-') on the model's tokens
StripLowerDash(val) ==
    CASE val = "Summer" -> "summer"
      [] val = " winter " -> "winter"
      [] val = "new_year" -> "new-year"
      [] val = "mothers_day" -> "mothers-day"
      [] val = "Christmas" -> "christmas"
      [] OTHER -> val

\* lines 368-383: SEASON_OCCASION_MAP.get(val, val) on the model's tokens
SEASON_OCCASION_MAP(val) ==
    CASE val = "ramdan" -> "ramadan"
      [] val = "eid" -> "eid-al-fitr"
      [] val = "val" -> "valentine"
      [] val = "ny" -> "new-year"
      [] val = "xmas" -> "christmas"
      [] val = "bday" -> "birthday"
      [] val = "anniversary" -> "wedding"
      [] OTHER -> val

\* lines 386-390
normalize_season_or_occasion(val) ==
    IF val = "" THEN "" ELSE SEASON_OCCASION_MAP(StripLowerDash(val))

\* lines 118-128
get_current_season(date) ==
    IF 3 <= date.month /\ date.month <= 5 THEN "spring"
    ELSE IF 6 <= date.month /\ date.month <= 8 THEN "summer"
    ELSE IF 9 <= date.month /\ date.month <= 11 THEN "fall"
    ELSE "winter"

\* lines 130-153
get_upcoming_occasions(date) ==
    IF date.month = 1 THEN <<"new year">>
    ELSE IF date.month = 2 THEN <<"valentine">>
    ELSE IF date.month = 3 THEN <<"mother's day">>
    ELSE IF date.month = 4
         THEN IF date.year % 3 = 0 THEN <<"ramadan", "eid">> ELSE <<>>
    ELSE IF date.month = 12 THEN <<"christmas">>
    ELSE <<>>

\* the values datetime.now() takes in the model
Dates ==
    {[month |-> 1, year |-> 2026], [month |-> 4, year |-> 2025],
     [month |-> 7, year |-> 2026], [month |-> 12, year |-> 2026]}

-----------------------------------------------------------------------------
(* re_rank_products *)

NormalizedItems(v) ==
    [i \in DOMAIN v.items |-> normalize_season_or_occasion(v.items[i])]

\* lines 423-430
ProductSeasons(prod) ==
    IF IsList(prod.seasons) THEN NormalizedItems(prod.seasons)
    ELSE IF Truthy(prod.season) THEN NormalizedItems(prod.season)
    ELSE <<>>

\* lines 422-432, in ten-thousandths
SeasonBoost(prod, date) ==
    IF normalize_season_or_occasion(get_current_season(date))
          \in Range(ProductSeasons(prod))
    THEN 1000 ELSE 0

\* lines 436-440
ProductOccasions(prod) ==
    IF IsList(prod.occasion) THEN NormalizedItems(prod.occasion)
    ELSE IF Truthy(prod.occasion) THEN NormalizedItems(prod.occasion)
    ELSE <<>>

\* lines 435-444, in ten-thousandths: added once, whatever the number of matches
OccasionBoost(prod, date) ==
    LET upcoming == [i \in DOMAIN get_upcoming_occasions(date) |->
                        normalize_season_or_occasion(get_upcoming_occasions(date)[i])]
    IN IF \E i \in DOMAIN upcoming : upcoming[i] \in Range(ProductOccasions(prod))
       THEN 1500 ELSE 0

Min(a, b) == IF a <= b THEN a ELSE b

\* lines 416-419, in ten-thousandths: min(preference_score / 10, 1.0) * 0.3
PreferenceTerm(prod, prefs) ==
    IF ~IsEmptyPreferences(prefs) /\ "preference_score" \in DOMAIN prod
    THEN Min(prod.preference_score * 10, 100) * 30
    ELSE 0

\* lines 413-447, in ten-thousandths: score * 0.7 is score (hundredths) * 70
FinalScore(prod, prefs, date) ==
    prod.score * 70 + PreferenceTerm(prod, prefs)
    + SeasonBoost(prod, date) + OccasionBoost(prod, date)

\* line 447: prod['final_score'] = final_score
WithFinalScore(prod, prefs, date) ==
    [k \in DOMAIN prod \cup {"final_score"} |->
        IF k = "final_score" THEN FinalScore(prod, prefs, date) ELSE prod[k]]

\* one element put in its place in a list sorted high to low: after every
\* element that is not smaller, so that equal keys keep their order
RECURSIVE InsertDescending(_, _)
InsertDescending(sorted, x) ==
    IF sorted = <<>> THEN <<x>>
    ELSE IF Head(sorted).final_score >= x.final_score
         THEN <<Head(sorted)>> \o InsertDescending(Tail(sorted), x)
         ELSE <<x>> \o sorted

RECURSIVE SortedDescending_Reversed(_)
SortedDescending_Reversed(prods) ==
    IF prods = <<>> THEN <<>>
    ELSE LET rest == SortedDescending_Reversed(Tail(prods))
             x == Head(prods)
             before == SelectSeq(rest, LAMBDA y : y.final_score >= x.final_score)
             after == SelectSeq(rest, LAMBDA y : y.final_score < x.final_score)
         IN before \o <<x>> \o after

\* line 450: sorted(products, key=final_score, reverse=True); Python's sort is
\* stable and reverse=True keeps the order of equal keys
RECURSIVE SortedDescending(_)
SortedDescending(prods) ==
    IF prods = <<>> THEN <<>>
    ELSE InsertDescending(SortedDescending(SubSeq(prods, 1, Len(prods) - 1)),
                          prods[Len(prods)])

\* lines 392-450
re_rank_products(prods, prefs, date) ==
    IF prods = <<>> THEN <<>>
    ELSE SortedDescending([i \in DOMAIN prods |-> WithFinalScore(prods[i], prefs, date)])


-----------------------------------------------------------------------------
(* Texts, catalog items and scored candidates *)

\* What is_meaningful_content reads of a text: the length of text.strip(),
\* the number of words of text.split(), whether a character is repeated four
\* times in a row, whether the text is made of digits, spaces and . - , only
GoodText == [chars |-> 12, words |-> 2, run4 |-> FALSE, numeric |-> FALSE]
OneWord == [chars |-> 6, words |-> 1, run4 |-> FALSE, numeric |-> FALSE]
EmptyText == [chars |-> 0, words |-> 0, run4 |-> FALSE, numeric |-> TRUE]
RepeatedText == [chars |-> 12, words |-> 2, run4 |-> TRUE, numeric |-> FALSE]

\* lines 91-116
is_meaningful_content(text) ==
    /\ ~(text.chars < 3)
    /\ ~(text.words < 2)
    /\ ~text.run4
    /\ ~text.numeric

\* a scored candidate, as lines 550-567 build it
BaseCandidate ==
    [id |-> 0, name |-> GoodText, description |-> GoodText, price |-> 400,
     score |-> 50, tags |-> ListOf(<<>>), occasion |-> ListOf(<<>>),
     season |-> ListOf(<<>>), seasons |-> ListOf(<<>>),
     targetGender |-> s_empty, ageGroup |-> s_empty]

\* the candidates of a list numbered by their place in it
WithIds(prods) == [i \in DOMAIN prods |-> [prods[i] EXCEPT !.id = i]]

\* a candidate without the fields the filter and the re-ranker add
Stripped(prod) ==
    [k \in DOMAIN prod \ {"preference_score", "final_score"} |-> prod[k]]

-----------------------------------------------------------------------------
(* filter_products_by_preferences on drawn inputs *)

FilterCandidates ==
    {[BaseCandidate EXCEPT !.targetGender = s_Male, !.ageGroup = s_Kids36,
                           !.price = 200, !.tags = ListOf(<<"Watches">>)],
     [BaseCandidate EXCEPT !.targetGender = s_female, !.ageGroup = s_teens,
                           !.price = 600, !.occasion = Scalar("Birthday")],
     [BaseCandidate EXCEPT !.targetGender = s_unisex],
     [BaseCandidate EXCEPT !.price = 200],
     [BaseCandidate EXCEPT !.targetGender = s_female, !.ageGroup = s_Kids36],
     [BaseCandidate EXCEPT !.targetGender = s_Male, !.ageGroup = s_adult,
                           !.price = 600, !.tags = Scalar("watches")],
     [BaseCandidate EXCEPT !.ageGroup = s_children],
     [BaseCandidate EXCEPT !.targetGender = s_unisex, !.ageGroup = s_teens,
                           !.price = 200]}

FilterPreferences ==
    [gender : {s_empty, s_male, s_female},
     age_group : {s_empty, s_children, s_teen},
     occasion : {"", "birthday"},
     interests : {{}, {"watches"}},
     price_range : {"", "budget", "premium"}]

FilterInitVars ==
    /\ f_pc = "call"
    /\ f_products \in {WithIds(c) : c \in SeqsUpTo(FilterCandidates, MaxCandidates)}
    /\ f_preferences \in FilterPreferences
    /\ f_result = <<>>

FilterIdle ==
    /\ f_pc = "unused" /\ f_products = <<>>
    /\ f_preferences = NoPreferences /\ f_result = <<>>

FilterReturn ==
    /\ f_pc = "call"
    /\ f_result' = filter_products_by_preferences(f_products, f_preferences)
    /\ f_pc' = "returned"
    /\ UNCHANGED <<f_products, f_preferences>>
    /\ UNCHANGED <<raceVars, extractVars, rankVars, mergeVars, managerVars, threadVars,
                   processVars, runVars>>

-----------------------------------------------------------------------------
(* re_rank_products on drawn inputs *)

RankCandidates ==
    {[BaseCandidate EXCEPT !.score = 15],
     [BaseCandidate EXCEPT !.score = 60],
     WithPreferenceScore([BaseCandidate EXCEPT !.score = 15], 15),
     WithPreferenceScore([BaseCandidate EXCEPT !.score = 60], 3),
     [BaseCandidate EXCEPT !.score = 60, !.seasons = ListOf(<<"Summer", " winter ">>)],
     [BaseCandidate EXCEPT !.score = 15, !.occasion = ListOf(<<"xmas">>)],
     [BaseCandidate EXCEPT !.score = 15, !.occasion = ListOf(<<"new_year">>)]}

RankPreferences ==
    {NoPreferences, [NoPreferences EXCEPT !.gender = s_male]}

RankInitVars ==
    /\ r_pc = "call"
    /\ r_products \in {WithIds(c) : c \in SeqsUpTo(RankCandidates, MaxRanked)}
    /\ r_preferences \in RankPreferences
    /\ r_now \in Dates
    /\ r_result = <<>>

RankIdle ==
    /\ r_pc = "unused" /\ r_products = <<>> /\ r_preferences = NoPreferences
    /\ r_now = [month |-> 1, year |-> 2026] /\ r_result = <<>>

RankReturn ==
    /\ r_pc = "call"
    /\ r_result' = re_rank_products(r_products, r_preferences, r_now)
    /\ r_pc' = "returned"
    /\ UNCHANGED <<r_products, r_preferences, r_now>>
    /\ UNCHANGED <<raceVars, extractVars, filterVars, mergeVars, managerVars, threadVars, processVars, runVars>>


-----------------------------------------------------------------------------
(* understanding.py: the rule-based context extractor                      *)
(*                                                                         *)
(* A question is a tuple of characters.  An Arabic letter is written by    *)
(* its name ("alef", "teh_marbuta", ...), a digit by itself and a blank by *)
(* " ".  A category of a keyword table is written in Latin letters:        *)
(*   eid_milad = birthday, bint = girl, walad = boy, umm = mother,         *)
(*   sadiq = friend, zamil_amal = colleague (recipient), zamil = colleague *)
(*   (relationship), otoor = perfumes, tifl = child, murahiq = teenager,   *)
(*   shab = young adult, mutawassit_al_omr = middle aged, kabir_al_sinn =  *)
(*   elderly, rakhis = cheap, mutawassit = mid, ghali = expensive,         *)
(*   maftuh = open, ajil = urgent, ghayr_ajil = not urgent, dhakar = male, *)
(*   untha = female.                                                       *)
(* Python's None is the string "None"; an int that may be None is a tuple  *)
(* of at most one integer (<<>> is None).  A dict is a function of its     *)
(* keys, {} the function of no key.                                        *)

None == "None"
NoInt == <<>>
EmptyDict == [k \in {} |-> None]

\* ---- the words of the questions and of the keyword tables, as they are typed;
\* ---- each word is a field of one record
Words ==
    [ahlan |-> <<"alef_hamza_above", "heh", "lam", "alef">>,
     bik |-> <<"beh", "yeh", "kaf">>,
     lwalad |-> <<"lam", "waw", "lam", "dal">>,
     walad |-> <<"waw", "lam", "dal">>,
     sahbi |-> <<"sad", "alef", "hah", "beh", "yeh">>,
     lzamili |-> <<"lam", "zain", "meem", "yeh", "lam", "yeh">>,
     zamili |-> <<"zain", "meem", "yeh", "lam", "yeh">>,
     zamil |-> <<"zain", "meem", "yeh", "lam">>,
     amal |-> <<"ain", "meem", "lam">>,
     fi |-> <<"feh", "yeh">>,
     alshughl |-> <<"alef", "lam", "sheen", "ghain", "lam">>,
     mama |-> <<"meem", "alef", "meem", "alef">>,
     bint |-> <<"beh", "noon", "teh">>,
     lbint |-> <<"lam", "beh", "noon", "teh">>,
     anisa |-> <<"alef", "noon", "seen", "teh_marbuta">>,
     umm_hamza |-> <<"alef_hamza_above", "meem">>,
     umm |-> <<"alef", "meem">>,
     sadiq |-> <<"sad", "dal", "yeh", "qaf">>,
     min |-> <<"meem", "noon">>,
     l |-> <<"lam">>,
     ila |-> <<"alef", "lam", "alef_maksura">>,
     lihad |-> <<"lam", "hah", "dal">>,
     hawali |-> <<"hah", "waw", "alef", "lam", "yeh">>,
     taqriban |-> <<"teh", "qaf", "reh", "yeh", "beh", "alef">>,
     hudud |-> <<"hah", "dal", "waw", "dal">>,
     guinea |-> <<"jeem", "noon", "yeh", "heh">>,
     gineh |-> <<"jeem", "noon", "heh">>,
     jeem |-> <<"jeem">>,
     rakhis |-> <<"reh", "khah", "yeh", "sad">>,
     rakhisa_marbuta |-> <<"reh", "khah", "yeh", "sad", "teh_marbuta">>,
     rakhisa |-> <<"reh", "khah", "yeh", "sad", "heh">>,
     mutawassit |-> <<"meem", "teh", "waw", "seen", "tah">>,
     ghali |-> <<"ghain", "alef", "lam", "yeh">>,
     ay |-> <<"alef", "yeh">>,
     sier |-> <<"seen", "ain", "reh">>,
     sana_marbuta |-> <<"seen", "noon", "teh_marbuta">>,
     sana |-> <<"seen", "noon", "heh">>,
     aam |-> <<"ain", "alef", "meem">>,
     omr |-> <<"ain", "meem", "reh">>,
     omro |-> <<"ain", "meem", "reh", "heh">>,
     omraha |-> <<"ain", "meem", "reh", "heh", "alef">>,
     sinn |-> <<"seen", "noon">>,
     sinnaha |-> <<"seen", "noon", "heh", "alef">>,
     tifl |-> <<"tah", "feh", "lam">>,
     shab |-> <<"sheen", "alef", "beh">>,
     kabir |-> <<"kaf", "beh", "yeh", "reh">>,
     daruri |-> <<"dad", "reh", "waw", "reh", "yeh">>,
     barahti |-> <<"beh", "reh", "alef", "hah", "teh", "yeh">>,
     eid |-> <<"ain", "yeh", "dal">>,
     milad |-> <<"meem", "yeh", "lam", "alef", "dal">>,
     ramadan |-> <<"reh", "meem", "dad", "alef", "noon">>,
     otoor |-> <<"ain", "tah", "waw", "reh">>,
     barfan |-> <<"beh", "reh", "feh", "alef", "noon">>,
     riyada |-> <<"reh", "yeh", "alef", "dad", "heh">>,
     dhakar |-> <<"thal", "kaf", "reh">>,
     untha |-> <<"alef", "noon", "theh", "alef_maksura">>,
     ayez |-> <<"ain", "alef", "yeh", "zain">>,
     itr |-> <<"ain", "tah", "reh">>,
     saa_marbuta |-> <<"seen", "alef", "ain", "teh_marbuta">>,
     asila |-> <<"alef_hamza_above", "seen", "yeh_hamza", "lam", "teh_marbuta">>,
     sabiqa |-> <<"seen", "alef", "beh", "qaf", "teh_marbuta">>,
     n15 |-> <<"1", "5">>,
     n200 |-> <<"2", "0", "0">>,
     n300 |-> <<"3", "0", "0">>,
     n500 |-> <<"5", "0", "0">>]

\* words joined by one blank
RECURSIVE JoinWords(_)
JoinWords(words) ==
    IF words = <<>> THEN <<>>
    ELSE IF Len(words) = 1 THEN words[1]
    ELSE words[1] \o <<" ">> \o JoinWords(Tail(words))

\* re.sub(r'[...]', 'alef', text): the three hamza and madda forms of alef
NormalizeAlef(c) ==
    IF c \in {"alef_hamza_above", "alef_hamza_below", "alef_madda"} THEN "alef" ELSE c

\* re.sub(teh marbuta, heh, text)
NormalizeTaaMarbuta(c) == IF c = "teh_marbuta" THEN "heh" ELSE c

\* re.sub(r'\s+', ' ', text)
\* the characters lo..hi of the text without the blanks that a blank follows
RECURSIVE CollapseRange(_, _, _)
CollapseRange(text, lo, hi) ==
    IF lo > hi THEN <<>>
    ELSE IF lo = hi
         THEN IF text[lo] = " " /\ lo < Len(text) /\ text[lo + 1] = " "
              THEN <<>> ELSE <<text[lo]>>
    ELSE LET mid == (lo + hi) \div 2
         IN CollapseRange(text, lo, mid) \o CollapseRange(text, mid + 1, hi)

CollapseWhitespace(text) == CollapseRange(text, 1, Len(text))

\* str.strip() on a text whose runs of blanks are collapsed
StripBlanks(text) ==
    LET first == IF Len(text) > 0 /\ text[1] = " " THEN 2 ELSE 1
        last == IF Len(text) > 0 /\ text[Len(text)] = " " THEN Len(text) - 1
                ELSE Len(text)
    IN IF first > last THEN <<>> ELSE SubSeq(text, first, last)

preprocess_text(text) ==
    StripBlanks(CollapseWhitespace(
        [i \in DOMAIN text |-> NormalizeTaaMarbuta(NormalizeAlef(LowerChar(text[i])))]))

\* ---- the keyword tables, in their declared order.  Of each table the
\* ---- model keeps the categories and keywords that are spelled with the
\* ---- words above; a keyword is kept as the source spells it.
OCCASIONS_KEYWORDS ==
    <<[category |-> "eid_milad",
       keywords |-> <<JoinWords(<<Words.eid, Words.milad>>), Words.milad>>],
      [category |-> "ramadan", keywords |-> <<Words.ramadan>>]>>

RECIPIENT_TYPES_KEYWORDS ==
    <<[category |-> "bint", keywords |-> <<Words.bint, Words.anisa, Words.lbint>>],
      [category |-> "walad", keywords |-> <<Words.walad, Words.shab, Words.lwalad>>],
      [category |-> "umm", keywords |-> <<Words.umm, Words.umm_hamza, Words.mama>>],
      [category |-> "sadiq", keywords |-> <<Words.sadiq, Words.sahbi, Words.zamili>>],
      [category |-> "tifl", keywords |-> <<Words.tifl>>],
      [category |-> "zamil_amal",
       keywords |-> <<Words.zamil, JoinWords(<<Words.zamil, Words.amal>>),
                      JoinWords(<<Words.zamili, Words.fi, Words.alshughl>>)>>]>>

RELATIONSHIP_KEYWORDS ==
    <<[category |-> "zamil", keywords |-> <<Words.zamil, Words.zamili>>]>>

INTERESTS_KEYWORDS ==
    <<[category |-> "riyada", keywords |-> <<Words.riyada>>],
      [category |-> "otoor", keywords |-> <<Words.otoor, Words.barfan>>]>>

AGE_GROUP_KEYWORDS ==
    <<[category |-> "tifl", keywords |-> <<Words.tifl>>],
      [category |-> "murahiq", keywords |-> <<JoinWords(<<Words.n15, Words.sana>>)>>],
      [category |-> "shab", keywords |-> <<Words.shab>>],
      [category |-> "kabir_al_sinn", keywords |-> <<Words.kabir>>]>>

BUDGET_QUALITATIVE_KEYWORDS ==
    <<[category |-> "rakhis", keywords |-> <<Words.rakhis, Words.rakhisa>>],
      [category |-> "mutawassit", keywords |-> <<Words.mutawassit>>],
      [category |-> "ghali", keywords |-> <<Words.ghali>>],
      [category |-> "maftuh", keywords |-> <<JoinWords(<<Words.ay, Words.sier>>)>>]>>

URGENCY_KEYWORDS ==
    <<[category |-> "ajil", keywords |-> <<Words.daruri>>],
      [category |-> "ghayr_ajil", keywords |-> <<Words.barahti>>]>>

GENDER_KEYWORDS ==
    <<[category |-> "dhakar", keywords |-> <<Words.dhakar, Words.walad>>],
      [category |-> "untha", keywords |-> <<Words.untha, Words.bint>>]>>

\* ---- regular expressions, on the characters of the text
IsDigit(c) == c \in {"0", "1", "2", "3", "4", "5", "6", "7", "8", "9"}

\* \w: a letter or a digit (every character of a text but the blank and
\* the punctuation of the conversation context)
IsWordChar(c) == c \notin {" ", "[", "]", ":", "."}

\* \b between the characters i and i+1 of the text
WordBoundary(text, i) ==
    LET before == i >= 1 /\ IsWordChar(text[i])
        after == i < Len(text) /\ IsWordChar(text[i + 1])
    IN before # after

\* the text reads `word` from its character i+1 on
StartsAt(text, i, word) ==
    /\ i + Len(word) <= Len(text)
    /\ SubSeq(text, i + 1, i + Len(word)) = word

\* re.search(r'\b' + re.escape(keyword) + r'\b', text): where it matches
KeywordPositions(keyword, text) ==
    {i \in 0..Len(text) :
        /\ StartsAt(text, i, keyword)
        /\ WordBoundary(text, i)
        /\ WordBoundary(text, i + Len(keyword))}

KeywordMatches(keyword, text) == KeywordPositions(keyword, text) # {}

\* \s* and \d+ from the character i+1 on: where the longest run ends
RunEnd(text, i, InClass(_)) ==
    LET ends == {e \in i..Len(text) : \A j \in (i + 1)..e : InClass(text[j])}
    IN CHOOSE e \in ends : \A f \in ends : f <= e

IsBlank(c) == c = " "
BlanksEnd(text, i) == RunEnd(text, i, IsBlank)
DigitsEnd(text, i) == RunEnd(text, i, IsDigit)

DigitValue(c) ==
    CASE c = "0" -> 0 [] c = "1" -> 1 [] c = "2" -> 2 [] c = "3" -> 3
      [] c = "4" -> 4 [] c = "5" -> 5 [] c = "6" -> 6 [] c = "7" -> 7
      [] c = "8" -> 8 [] c = "9" -> 9

\* int(match.group(n)) of a run of digits
RECURSIVE IntOfDigits(_)
IntOfDigits(digits) ==
    IF digits = <<>> THEN 0
    ELSE 10 * IntOfDigits(SubSeq(digits, 1, Len(digits) - 1))
         + DigitValue(digits[Len(digits)])

MinOf(S) == CHOOSE x \in S : \A y \in S : x <= y
MaxOf(S) == CHOOSE x \in S : \A y \in S : y <= x

\* (sana|...|sinnaha)\b of AGE_REGEX, on a normalized text
AGE_REGEX_Words ==
    {Words.sana, Words.sana_marbuta, Words.aam, Words.omr, Words.omro, Words.omraha, Words.sinn, Words.sinnaha}

\* AGE_REGEX = (\d{1,3})\s*(...)\b matched from the character i+1 on with a
\* first group of n digits
AgeMatchAt(text, i, n) ==
    /\ i + n <= Len(text)
    /\ \A j \in (i + 1)..(i + n) : IsDigit(text[j])
    /\ LET q == BlanksEnd(text, i + n)
       IN \E word \in AGE_REGEX_Words :
              StartsAt(text, q, word) /\ WordBoundary(text, q + Len(word))

\* AGE_REGEX.search(text): the first group of the leftmost match, the
\* longest first (<<>> when there is no match)
AGE_REGEX_search(text) ==
    LET found == {i \in 0..Len(text) : \E n \in 1..3 : AgeMatchAt(text, i, n)}
    IN IF found = {} THEN <<>>
       ELSE LET i == MinOf(found)
                n == MaxOf({m \in 1..3 : AgeMatchAt(text, i, m)})
            IN <<SubSeq(text, i + 1, i + n)>>

\* (guinea|gineh|jeem|egp)? \b after a run of digits that ends at e
BUDGET_Currencies == {Words.guinea, Words.gineh, Words.jeem, <<"e", "g", "p">>}
NumberEnds(text, e) ==
    \/ WordBoundary(text, e)
    \/ \E currency \in BUDGET_Currencies :
           LET q == BlanksEnd(text, e)
           IN StartsAt(text, q, currency) /\ WordBoundary(text, q + Len(currency))

\* (?:min|hawali|fi hudud) of BUDGET_REGEX_RANGE
BUDGET_REGEX_RANGE_Openers == {Words.min, Words.hawali, JoinWords(<<Words.fi, Words.hudud>>)}
\* (?:l|ila|lihad) of BUDGET_REGEX_RANGE
BUDGET_REGEX_RANGE_Separators == {Words.l, Words.ila, Words.lihad}

\* the matches of BUDGET_REGEX_RANGE: where each starts and its two groups
BUDGET_REGEX_RANGE_matches(text) ==
    UNION {
        LET a == BlanksEnd(text, i + Len(opener))
            b == DigitsEnd(text, a)
            c == BlanksEnd(text, b)
            d == BlanksEnd(text, c + Len(separator))
            e == DigitsEnd(text, d)
        IN IF /\ StartsAt(text, i, opener)
              /\ b > a
              /\ StartsAt(text, c, separator)
              /\ e > d
              /\ NumberEnds(text, e)
           THEN {[at |-> i, first |-> SubSeq(text, a + 1, b),
                  second |-> SubSeq(text, d + 1, e)]}
           ELSE {} :
        i \in 0..Len(text),
        opener \in BUDGET_REGEX_RANGE_Openers,
        separator \in BUDGET_REGEX_RANGE_Separators}

\* (?:hawali|taqriban|fi hudud) of BUDGET_REGEX_APPROX
BUDGET_REGEX_APPROX_Openers == {Words.hawali, Words.taqriban, JoinWords(<<Words.fi, Words.hudud>>)}

\* the matches of BUDGET_REGEX_APPROX: where each starts and its first group
BUDGET_REGEX_APPROX_matches(text) ==
    UNION {
        LET a == BlanksEnd(text, i + Len(opener))
            b == DigitsEnd(text, a)
        IN IF StartsAt(text, i, opener) /\ b > a /\ NumberEnds(text, b)
           THEN {[at |-> i, first |-> SubSeq(text, a + 1, b)]}
           ELSE {} :
        i \in 0..Len(text), opener \in BUDGET_REGEX_APPROX_Openers}

\* the matches of BUDGET_REGEX_NUMBER = (\d+)\s*(currency)?\b
BUDGET_REGEX_NUMBER_matches(text) ==
    UNION {
        LET b == DigitsEnd(text, i)
        IN IF b > i /\ NumberEnds(text, b)
           THEN {[at |-> i, first |-> SubSeq(text, i + 1, b)]}
           ELSE {} :
        i \in 0..Len(text)}

\* regex.search: the leftmost match
Leftmost(matches) == CHOOSE m \in matches : \A other \in matches : m.at <= other.at

\* ---- the helper functions
\* the category of the keyword that occurs first in the text
extract_from_keywords_FirstInText(text, keywords_dict) ==
    LET places == UNION {UNION {KeywordPositions(keywords_dict[c].keywords[k], text) :
                                   k \in DOMAIN keywords_dict[c].keywords} :
                            c \in DOMAIN keywords_dict}
    IN IF places = {} THEN None
       ELSE LET first == CHOOSE i \in places : \A j \in places : i <= j
            IN keywords_dict[CHOOSE c \in DOMAIN keywords_dict :
                   \E k \in DOMAIN keywords_dict[c].keywords :
                       first \in KeywordPositions(keywords_dict[c].keywords[k], text)
               ].category

RECURSIVE extract_from_keywords(_, _)
extract_from_keywords(text, keywords_dict) ==
    IF keywords_dict = <<>> THEN None
    ELSE IF \E k \in DOMAIN Head(keywords_dict).keywords :
                KeywordMatches(Head(keywords_dict).keywords[k], text)
         THEN Head(keywords_dict).category
    ELSE extract_from_keywords(text, Tail(keywords_dict))

\* list(found_entities): the order of the list is the set's
extract_entities_from_keywords(text, keywords_dict) ==
    {keywords_dict[c].category : c \in
        {d \in DOMAIN keywords_dict :
            \E k \in DOMAIN keywords_dict[d].keywords :
                KeywordMatches(keywords_dict[d].keywords[k], text)}}

\* the group of a numerical age
AgeGroupOf(num_age) ==
    IF num_age <= 12 THEN "tifl"
    ELSE IF 13 <= num_age /\ num_age <= 19 THEN "murahiq"
    ELSE IF 20 <= num_age /\ num_age <= 29 THEN "shab"
    ELSE IF 30 <= num_age /\ num_age <= 49 THEN "mutawassit_al_omr"
    ELSE "kabir_al_sinn"

\* bool(v) of an int-or-None and of a str-or-None
TruthyInt(v) == v # NoInt /\ v[1] # 0
TruthyStr(v) == v # None

extract_age(text) ==
    LET match == AGE_REGEX_search(text)
        numerical == IF match # <<>> THEN <<IntOfDigits(match[1])>> ELSE NoInt
        age_group == extract_from_keywords(text, AGE_GROUP_KEYWORDS)
        group == IF age_group # None THEN age_group
                 ELSE IF numerical # NoInt THEN AgeGroupOf(numerical[1])
                 ELSE None
    IN IF TruthyInt(numerical) \/ TruthyStr(group)
       THEN [numerical |-> numerical, group |-> group]
       ELSE EmptyDict

BudgetInfo(min, max, approx, qualitative) ==
    [min |-> min, max |-> max, approx |-> approx, qualitative |-> qualitative]

\* extract_budget without its closing `else {}`
extract_budget_KeepsEmptyRecord(text) ==
    LET ranges == BUDGET_REGEX_RANGE_matches(text)
        approxes == BUDGET_REGEX_APPROX_matches(text)
        numbers == BUDGET_REGEX_NUMBER_matches(text)
        approx == IF approxes # {} THEN <<IntOfDigits(Leftmost(approxes).first)>>
                  ELSE IF numbers # {} THEN <<IntOfDigits(Leftmost(numbers).first)>>
                  ELSE NoInt
        qualitative == extract_from_keywords(text, BUDGET_QUALITATIVE_KEYWORDS)
    IN IF ranges # {}
       THEN BudgetInfo(<<IntOfDigits(Leftmost(ranges).first)>>,
                       <<IntOfDigits(Leftmost(ranges).second)>>, NoInt, None)
       ELSE BudgetInfo(NoInt, NoInt, approx, qualitative)

extract_budget(text) ==
    LET ranges == BUDGET_REGEX_RANGE_matches(text)
        approxes == BUDGET_REGEX_APPROX_matches(text)
        numbers == BUDGET_REGEX_NUMBER_matches(text)
        approx == IF approxes # {} THEN <<IntOfDigits(Leftmost(approxes).first)>>
                  ELSE IF numbers # {} THEN <<IntOfDigits(Leftmost(numbers).first)>>
                  ELSE NoInt
        qualitative == extract_from_keywords(text, BUDGET_QUALITATIVE_KEYWORDS)
    IN IF ranges # {}
       THEN \* return budget_info  # Prioritize range
            BudgetInfo(<<IntOfDigits(Leftmost(ranges).first)>>,
                       <<IntOfDigits(Leftmost(ranges).second)>>, NoInt, None)
       ELSE IF TruthyInt(approx) \/ TruthyStr(qualitative)
       THEN BudgetInfo(NoInt, NoInt, approx, qualitative)
       ELSE EmptyDict

infer_gender(recipient_type, relationship) ==
    IF recipient_type \in {"bint", "umm", "zawja", "sadiqa", "ukht", "jadda",
                           "khatiba", "zamilat_amal", "mudira"}
    THEN "untha"
    ELSE IF recipient_type \in {"walad", "ab", "zawj", "sadiq", "akh", "jadd",
                                "khatib", "zamil_amal", "mudir", "tifl"}
    THEN "dhakar"
    ELSE IF relationship = "khatiba" THEN "untha"
    ELSE IF relationship = "khatib" THEN "dhakar"
    ELSE None

extract_context(user_question) ==
    LET processed_q == preprocess_text(user_question)
        recipient_type == extract_from_keywords(processed_q, RECIPIENT_TYPES_KEYWORDS)
        relationship == extract_from_keywords(processed_q, RELATIONSHIP_KEYWORDS)
        gender == extract_from_keywords(processed_q, GENDER_KEYWORDS)
    IN [occasion |-> extract_from_keywords(processed_q, OCCASIONS_KEYWORDS),
        recipient_type |-> recipient_type,
        relationship |-> relationship,
        age |-> extract_age(processed_q),
        interests |-> extract_entities_from_keywords(processed_q, INTERESTS_KEYWORDS),
        budget |-> extract_budget(processed_q),
        urgency |-> extract_from_keywords(processed_q, URGENCY_KEYWORDS),
        gender |-> IF gender = None THEN infer_gender(recipient_type, relationship)
                   ELSE gender,
        other_details |-> processed_q]

\* ---- extract_context on drawn questions
\* the phrases a drawn question is made of
Phrases ==
    {<<" ">> \o Words.ahlan \o <<" ", " ">> \o Words.bik,
     JoinWords(<<Words.lwalad, Words.sahbi>>),
     JoinWords(<<Words.lzamili, Words.fi, Words.alshughl>>),
     Words.zamili,
     Words.mama,
     Words.walad,
     Words.bint,
     Words.umm_hamza,
     Words.anisa,
     JoinWords(<<Words.min, Words.n200, Words.l, Words.n300, Words.guinea>>),
     JoinWords(<<Words.hawali, Words.n500>>),
     Words.rakhisa_marbuta,
     JoinWords(<<Words.n15, Words.sana_marbuta>>),
     Words.daruri,
     Words.milad,
     Words.barfan}

ExtractQuestions == {JoinWords(phrases) : phrases \in SeqsUpTo(Phrases, MaxPhrases)}

NoContext == <<>>

ExtractInitVars ==
    /\ x_pc = "call"
    /\ x_question \in ExtractQuestions
    /\ x_context = NoContext

ExtractIdle ==
    /\ x_pc = "unused" /\ x_question = <<>> /\ x_context = NoContext

ExtractReturn ==
    /\ x_pc = "call"
    /\ x_context' = extract_context(x_question)
    /\ x_pc' = "returned"
    /\ UNCHANGED x_question
    /\ UNCHANGED <<raceVars, filterVars, rankVars, mergeVars, managerVars, threadVars,
                   processVars, runVars>>

-----------------------------------------------------------------------------
(* The request pipeline: inputs *)

\* the worker threads of the server (a `def` endpoint runs in a thread pool)
Threads == {"t1", "t2"}

\* session_id=None
NoSession == "None"
SessionIds == {"s1"}

\* "q_girl_perfume" is a request for a perfume for a girl, "q_boy_watch" one
\* for a cheap watch for a boy
Questions == {"q_girl_perfume", "q_boy_watch"}

\* values a caller passes as top_k: `value` is what int() makes of the
\* argument where int() accepts it
IntArg(n) == [type |-> "int", value |-> n]
FloatArg(whole) == [type |-> "float", value |-> whole]
SliceArg == [type |-> "slice", value |-> 0]
NoneArg == [type |-> "NoneType", value |-> 0]
ListArg == [type |-> "list", value |-> 0]
WordArg == [type |-> "str", value |-> 0]

\* 1, 5, 0, -1, 2.7, slice(0, 5), None, [3] and 'abc'
TopKs ==
    {IntArg(1), IntArg(5), IntArg(0), IntArg(-1), FloatArg(2),
     SliceArg, NoneArg, ListArg, WordArg}

DefaultTopK == 5

\* line 459 raises: int() of None or of a list is a TypeError, int() of a
\* string that is no numeral a ValueError
IntRaises(arg) == arg.type \in {"NoneType", "list", "str"}

\* lines 454-462
CoerceTopK(arg) ==
    IF arg.type = "slice" THEN DefaultTopK
    ELSE IF IntRaises(arg) THEN DefaultTopK
    ELSE arg.value

\* lines 206-285 on the model's questions
extract_user_preferences(q) ==
    CASE q = "q_girl_perfume" ->
            [NoPreferences EXCEPT !.gender = s_female, !.interests = {"perfumes"}]
      [] q = "q_boy_watch" ->
            [NoPreferences EXCEPT !.gender = s_male, !.interests = {"watches"},
                                  !.price_range = "budget"]
      [] OTHER -> NoPreferences

\* a catalog document
BaseProduct ==
    [id |-> 0, name |-> GoodText, description |-> GoodText, price |-> 400,
     tags |-> Missing, occasion |-> Missing, season |-> Missing,
     seasons |-> Missing, targetGender |-> s_empty, ageGroup |-> s_empty]

Perfume ==
    [BaseProduct EXCEPT !.id = 1, !.targetGender = s_female, !.price = 600,
                        !.tags = ListOf(<<"perfumes">>), !.season = Scalar("Summer")]
Watch ==
    [BaseProduct EXCEPT !.id = 2, !.targetGender = s_Male, !.price = 200,
                        !.tags = ListOf(<<"Watches">>), !.occasion = ListOf(<<"xmas">>)]
Mug ==
    [BaseProduct EXCEPT !.id = 3, !.name = OneWord, !.targetGender = s_unisex]

\* Python's None where a string can stand: a document whose field is null
s_None == <<"None">>

\* a document with "targetGender": null
NullGender ==
    [BaseProduct EXCEPT !.id = 5, !.targetGender = s_None, !.price = 250]

GiftBox ==
    [BaseProduct EXCEPT !.id = 4, !.targetGender = s_unisex, !.price = 250,
                        !.occasion = Scalar("Christmas")]

\* the snapshots list(products_collection.find()) returns
Catalogs ==
    {<<>>, <<Perfume, Watch, GiftBox>>, <<Watch, Mug, Perfume>>,
     <<GiftBox, NullGender>>}

\* the sets of catalog positions whose model.encode call may raise
EncodeFailures == {{}, {1}, {2}}

\* the values 1 - cosine(question_embedding, prod_embedding) takes, in hundredths
Similarities == {10, 15, 60}
SimilarityFloor == 15

\* the values datetime.now() takes while requests are served
RequestDates == {[month |-> 7, year |-> 2026], [month |-> 12, year |-> 2026]}

-----------------------------------------------------------------------------
(* The embedding model: functools.lru_cache(maxsize=1) around the loader *)

\* the cache holds no entry
NoModel == 0

-----------------------------------------------------------------------------
(* session.py: the storage backend and the session manager *)

NoSessionData ==
    [exists |-> FALSE, last_accessed |-> 0, question_history |-> <<>>,
     user_preferences |-> NoPreferences]

\* InMemorySessionStorage.__init__: self._sessions = {}
EmptyStorage == [s \in SessionIds |-> NoSessionData]

\* InMemorySessionStorage.get
StorageGet(store, sid) == store[sid]

\* InMemorySessionStorage.save
StorageSave(store, sid, data) == [store EXCEPT ![sid] = data]

\* SessionManager.get_session: the storage it leaves
get_session_storage(store, sid, time) ==
    LET session_data == StorageGet(store, sid)
    IN IF session_data.exists
       THEN StorageSave(store, sid, [session_data EXCEPT !.last_accessed = time])
       ELSE store

\* SessionManager.get_session: the value it returns (NoSessionData for None)
get_session(store, sid, time) ==
    LET session_data == StorageGet(store, sid)
    IN IF session_data.exists
       THEN [session_data EXCEPT !.last_accessed = time]
       ELSE NoSessionData

UpdatePreferences_KeepsStored(original, updates) ==
    [k \in DOMAIN original |->
        IF k = "interests"
        THEN IF updates[k] # {} THEN updates[k] ELSE original[k]
        ELSE IF original[k] # NoPreferences[k] THEN original[k] ELSE updates[k]]

\* update_nested_dict on the mapping under 'user_preferences': the keys of
\* the update replace the stored ones, the other stored keys stay
UpdatePreferences(original, updates) ==
    [gender |-> IF updates.gender # s_empty THEN updates.gender ELSE original.gender,
     age_group |-> IF updates.age_group # s_empty THEN updates.age_group
                   ELSE original.age_group,
     occasion |-> IF updates.occasion # "" THEN updates.occasion ELSE original.occasion,
     interests |-> IF updates.interests # {} THEN updates.interests
                   ELSE original.interests,
     price_range |-> IF updates.price_range # "" THEN updates.price_range
                     ELSE original.price_range]

\* SessionManager.update_session with the dict suggest_products_logic passes:
\* the storage it leaves (unchanged when the id is unknown: it returns False)
update_session(store, sid, data, time) ==
    LET session_data == StorageGet(store, sid)
    IN IF ~session_data.exists THEN store
       ELSE StorageSave(store, sid,
                [exists |-> TRUE,
                 last_accessed |-> time,
                 question_history |-> data.question_history,
                 user_preferences |->
                     UpdatePreferences(session_data.user_preferences,
                                       data.user_preferences)])

-----------------------------------------------------------------------------
(* session.py: one SessionManager driven operation by operation *)

\* a value of a session dictionary: a mapping of keys to values, or a leaf
Leaf(v) == [map |-> FALSE, items |-> <<>>, value |-> v]
Mapping(f) == [map |-> TRUE, items |-> f, value |-> ""]

update_nested_dict_Shallow(original, updates) ==
    Mapping([key \in DOMAIN original.items \cup DOMAIN updates.items |->
        IF key \in DOMAIN updates.items THEN updates.items[key]
        ELSE original.items[key]])

\* lines 287-292: update_nested_dict(original, updates), as the mapping
\* `original` is afterwards
RECURSIVE update_nested_dict(_, _)
update_nested_dict(original, updates) ==
    Mapping([key \in DOMAIN original.items \cup DOMAIN updates.items |->
        IF key \notin DOMAIN updates.items THEN original.items[key]
        ELSE IF /\ key \in DOMAIN original.items
                /\ original.items[key].map /\ updates.items[key].map
             THEN update_nested_dict(original.items[key], updates.items[key])
             ELSE updates.items[key]])

\* lines 172-179: uuid4 gives an id no session bears yet
UuidNames == <<"u1", "u2", "u3", "u4", "u5">>
Uuids == {UuidNames[i] : i \in 1..(MaxSessions + 1)}

DEFAULT_EXPIRY == 86400
CLEANUP_INTERVAL == 3600

\* no session is stored under the id
NoStoredSession == [exists |-> FALSE, last_accessed |-> 0, body |-> Mapping(<<>>)]

\* lines 207-222: the dictionary of a new session, 'last_accessed' apart
NewSessionBody(time) ==
    Mapping([created_at |-> Leaf(time),
             user_id |-> Leaf("None"),
             context |-> Mapping([last_message |-> Leaf("None"),
                                  preferences |-> Mapping(<<>>),
                                  history |-> Leaf("[]")]),
             metadata |-> Mapping([session_count |-> Leaf(1)])])

\* lines 120-145: InMemorySessionStorage.clean_expired at time current_time
clean_expired(sessions, max_age_seconds, current_time) ==
    [sid \in DOMAIN sessions |->
        IF sessions[sid].exists
           /\ current_time - sessions[sid].last_accessed > max_age_seconds
        THEN NoStoredSession ELSE sessions[sid]]

\* line 185: the sweep is due
SweepDue_Always(current_time, last_cleanup) == TRUE

SweepDue(current_time, last_cleanup) ==
    current_time - last_cleanup > CLEANUP_INTERVAL

\* what an operation on the driven manager was and what it returned
Returned(op, sid, result, data, swept) ==
    [op |-> op, id |-> sid, result |-> result, data |-> data, swept |-> swept]

\* SessionManager.__init__ at time 0: an empty storage
ManagerInitVars ==
    /\ sm_sessions = [sid \in Uuids |-> NoStoredSession]
    /\ sm_last_cleanup = 0 /\ sm_clock = 0 /\ sm_created = 0
    /\ sm_returned = Returned("__init__", "", TRUE, Mapping(<<>>), FALSE)

\* no SessionManager is driven
ManagerIdle ==
    /\ sm_sessions = [sid \in Uuids |-> NoStoredSession]
    /\ sm_last_cleanup = 0 /\ sm_clock = 0 /\ sm_created = 0
    /\ sm_returned = Returned("unused", "", TRUE, Mapping(<<>>), FALSE)

unitVars == <<raceVars, extractVars, filterVars, rankVars, mergeVars, threadVars,
              processVars, runVars>>

\* lines 189-230: create_session, the sweep of lines 181-187 included
CreateSession(limit) ==
    /\ sm_created < limit
    /\ LET new_id == UuidNames[sm_created + 1]
           saved == [sm_sessions EXCEPT ![new_id] =
                        [exists |-> TRUE, last_accessed |-> sm_clock,
                         body |-> NewSessionBody(sm_clock)]]
           due == SweepDue(sm_clock, sm_last_cleanup)
       IN /\ sm_sessions' = IF due THEN clean_expired(saved, DEFAULT_EXPIRY, sm_clock)
                             ELSE saved
          /\ sm_last_cleanup' = IF due THEN sm_clock ELSE sm_last_cleanup
          /\ sm_returned' = Returned("create_session", new_id, TRUE,
                                      Mapping(<<>>), due)
    /\ sm_created' = sm_created + 1
    /\ UNCHANGED sm_clock
    /\ UNCHANGED unitVars

\* lines 232-258
GetSessionCall(sid) ==
    /\ sm_sessions' = IF sm_sessions[sid].exists
                       THEN [sm_sessions EXCEPT ![sid].last_accessed = sm_clock]
                       ELSE sm_sessions
    /\ sm_returned' = Returned("get_session", sid, sm_sessions[sid].exists,
                                Mapping(<<>>), FALSE)
    /\ UNCHANGED <<sm_last_cleanup, sm_clock, sm_created>>
    /\ UNCHANGED unitVars

\* lines 260-298
UpdateSessionCall(sid, data) ==
    /\ sm_sessions' = IF sm_sessions[sid].exists
                       THEN [sm_sessions EXCEPT ![sid] =
                                [exists |-> TRUE, last_accessed |-> sm_clock,
                                 body |-> update_nested_dict(@.body, data)]]
                       ELSE sm_sessions
    /\ sm_returned' = Returned("update_session", sid, sm_sessions[sid].exists,
                                data, FALSE)
    /\ UNCHANGED <<sm_last_cleanup, sm_clock, sm_created>>
    /\ UNCHANGED unitVars

\* lines 362-383 and 94-108
DeleteSessionCall(sid) ==
    /\ sm_sessions' = [sm_sessions EXCEPT ![sid] = NoStoredSession]
    /\ sm_returned' = Returned("delete_session", sid, sm_sessions[sid].exists,
                                Mapping(<<>>), FALSE)
    /\ UNCHANGED <<sm_last_cleanup, sm_clock, sm_created>>
    /\ UNCHANGED unitVars

\* time.time() moves on between two operations, to one of the instants
Tick(instants) ==
    /\ \E time \in instants :
          /\ time > sm_clock /\ time <= MaxClock
          /\ sm_clock' = time
    /\ sm_returned' = Returned("sleep", "", TRUE, Mapping(<<>>), FALSE)
    /\ UNCHANGED <<sm_sessions, sm_last_cleanup, sm_created>>
    /\ UNCHANGED unitVars

\* the partial records update_session is called with
Updates ==
    {Mapping([context |-> Mapping([last_message |-> Leaf("hello")])]),
     Mapping([context |-> Mapping([preferences |-> Mapping([language |-> Leaf("ar")])])]),
     Mapping([context |-> Leaf("reset")]),
     Mapping([user_id |-> Mapping([name |-> Leaf("user123")]),
              user_preferences |-> Mapping([gender |-> Leaf("male")])])}

\* the instants at which operations are called, in seconds after the
\* construction of the manager: around the first hour, around the first day,
\* and an hour and more after that
Instants == {0, 3600, 3601, 86400, 86401, 90001, MaxClock}

-----------------------------------------------------------------------------
(* Calls on one SessionManager that run side by side                       *)
(*                                                                         *)
(* get_session, update_session and add_message_to_history take the         *)
(* storage lock twice: in storage.get, which hands out the stored          *)
(* dictionary itself, and in storage.save, which puts it back under the    *)
(* id.  Between the two another thread can run.  The dictionary of a       *)
(* session is one object from create_session on: c_detached keeps what it  *)
(* holds once storage.delete has taken it out of the store.                *)

Callers == {"c1", "c2"}

\* the text of a history of 0, 1, 2, ... messages
HistoryTexts ==
    <<"[]", "[m]", "[m, m]", "[m, m, m]", "[m, m, m, m]", "[m, m, m, m, m]">>

\* lines 347-357: history.append(message) and last_message = message, as
\* the dictionary is afterwards
AppendMessage(body) ==
    LET history == body.items.context.items.history.value
        count == CHOOSE n \in DOMAIN HistoryTexts : HistoryTexts[n] = history
    IN update_nested_dict(body,
           Mapping([context |-> Mapping([history |-> Leaf(HistoryTexts[count + 1]),
                                         last_message |-> Leaf("m")])]))

\* what a call does to the dictionary it holds, 'last_accessed' apart
Mutated(body, op, data) ==
    CASE op = "get_session" -> body
      [] op = "update_session" -> update_nested_dict(body, data)
      [] op = "add_message_to_history" -> AppendMessage(body)

NoCall == [pc |-> "idle", op |-> "", id |-> "", data |-> Mapping(<<>>)]

RaceIdle ==
    /\ c_thread = [c \in Callers |-> NoCall]
    /\ c_detached = [sid \in Uuids |-> NoStoredSession]
    /\ c_deleted = {}
    /\ c_begun = 0

otherVars == <<extractVars, filterVars, rankVars, mergeVars, threadVars, processVars,
               runVars>>

\* lines 250, 280 and 340: session_data = self.storage.get(session_id); the
\* call returns at once when there is no such session
BeginCall(c, op, sid, data) ==
    /\ c_thread[c].pc = "idle"
    /\ c_begun < MaxCalls
    /\ c_begun' = c_begun + 1
    /\ IF sm_sessions[sid].exists
       THEN /\ c_thread' = [c_thread EXCEPT ![c] =
                               [pc |-> "holding", op |-> op, id |-> sid, data |-> data]]
            /\ UNCHANGED sm_returned
       ELSE /\ UNCHANGED c_thread
            /\ sm_returned' = Returned(op, sid, FALSE, data, FALSE)
    /\ UNCHANGED <<sm_sessions, sm_last_cleanup, sm_clock, sm_created>>
    /\ UNCHANGED <<c_detached, c_deleted>>
    /\ UNCHANGED otherVars

\* lines 252-256, 294-298 and 354-360: the dictionary is changed and
\* self.storage.save(session_id, session_data) puts it under the id
WriteBack(c) ==
    /\ c_thread[c].pc = "holding"
    /\ LET sid == c_thread[c].id
           held == IF sm_sessions[sid].exists THEN sm_sessions[sid]
                   ELSE c_detached[sid]
       IN /\ sm_sessions' = [sm_sessions EXCEPT ![sid] =
                                [exists |-> TRUE, last_accessed |-> sm_clock,
                                 body |-> Mutated(held.body, c_thread[c].op,
                                                  c_thread[c].data)]]
          /\ sm_returned' = Returned(c_thread[c].op, sid, TRUE, c_thread[c].data, FALSE)
    /\ c_thread' = [c_thread EXCEPT ![c] = NoCall]
    /\ UNCHANGED <<sm_last_cleanup, sm_clock, sm_created>>
    /\ UNCHANGED <<c_detached, c_deleted, c_begun>>
    /\ UNCHANGED otherVars

\* lines 362-383 and 94-108: delete_session while other calls are under way
DeleteBetween(sid) ==
    /\ sm_sessions' = [sm_sessions EXCEPT ![sid] = NoStoredSession]
    /\ sm_returned' = Returned("delete_session", sid, sm_sessions[sid].exists,
                                Mapping(<<>>), FALSE)
    /\ IF sm_sessions[sid].exists
       THEN /\ c_detached' = [c_detached EXCEPT ![sid] = sm_sessions[sid]]
            /\ c_deleted' = c_deleted \cup {sid}
       ELSE UNCHANGED <<c_detached, c_deleted>>
    /\ UNCHANGED <<sm_last_cleanup, sm_clock, sm_created>>
    /\ UNCHANGED <<c_thread, c_begun>>
    /\ UNCHANGED otherVars

\* the operations that read a session and write it back
ReadWriteOperations == {"get_session", "update_session", "add_message_to_history"}

\* what update_session is called with while other calls are under way
RaceUpdates == {Mapping([context |-> Mapping([last_message |-> Leaf("hello")])])}

-----------------------------------------------------------------------------
(* suggest_products_logic: its steps *)

HistoryLimit == 5

\* line 494: history[-5:] if len(history) > 5 else history
LastQuestions(history) ==
    IF Len(history) > HistoryLimit
    THEN SubSeq(history, Len(history) - HistoryLimit + 1, Len(history))
    ELSE history

\* lines 484-495: session_context once the question is in its history
SessionContextOf(got, sid, q) ==
    IF sid = NoSession THEN [question_history |-> <<>>, user_preferences |-> NoPreferences]
    ELSE [question_history |-> LastQuestions(Append(got.question_history, q)),
          user_preferences |-> got.user_preferences]

\* lines 504-511: the freshly mined map merged with the session's
MergedPreferences(fresh, sess) ==
    [gender |-> IF fresh.gender = s_empty THEN sess.gender ELSE fresh.gender,
     age_group |-> IF fresh.age_group = s_empty THEN sess.age_group ELSE fresh.age_group,
     occasion |-> IF fresh.occasion = "" THEN sess.occasion ELSE fresh.occasion,
     interests |-> IF fresh.interests = {} THEN sess.interests
                   ELSE IF sess.interests # {} THEN fresh.interests \cup sess.interests
                   ELSE fresh.interests,
     price_range |-> IF fresh.price_range = "" THEN sess.price_range
                     ELSE fresh.price_range]

\* the preference record whose list of interests is read as a set
Setified(prefs) == [prefs EXCEPT !.interests = Range(@)]

\* the lists that hold each element of S once
Orderings(S) ==
    {seq \in SeqsUpTo(S, Cardinality(S)) : Len(seq) = Cardinality(S) /\ Range(seq) = S}

MergedInterests_Concatenated(fresh, sess) == {fresh \o sess}

MergedInterests_Appended(fresh, sess) == {sess \o fresh}

\* lines 506-511 on the key 'interests', the lists kept as lists: the lists
\* preferences['interests'] may be afterwards (list(set(...)) puts the
\* elements in the order of the set's iteration, which the hash seed decides)
MergedInterests(fresh, sess) ==
    IF fresh = <<>> THEN {sess}
    ELSE IF sess # <<>> THEN Orderings(Range(fresh \o sess))
    ELSE {fresh}

\* the interests the merge is applied to
InterestNames == {"perfumes", "watches", "bags"}

\* the lists of interests a record holds: extract_user_preferences appends
\* each interest once, and the merge leaves no duplicate
InterestLists ==
    {l \in SeqsUpTo(InterestNames, MaxInterests) : Cardinality(Range(l)) = Len(l)}

MergePreferenceRecords ==
    {[gender |-> g, age_group |-> s_empty, occasion |-> "", interests |-> l,
      price_range |-> p] :
        g \in {s_empty, s_male, s_female}, l \in InterestLists,
        p \in {"", "budget", "premium"}}

MergeInitVars ==
    /\ m_pc = "call"
    /\ m_fresh \in MergePreferenceRecords
    /\ m_session \in MergePreferenceRecords
    /\ m_result = [NoPreferences EXCEPT !.interests = <<>>]
    /\ m_stored = m_session

MergeIdle ==
    /\ m_pc = "unused"
    /\ m_fresh = [NoPreferences EXCEPT !.interests = <<>>]
    /\ m_session = m_fresh /\ m_result = m_fresh /\ m_stored = m_fresh

\* lines 504-516: the merge, and the write of the merged record into the
\* stored session by update_session (update_nested_dict, session.py 287-292)
MergeReturn ==
    /\ m_pc = "call"
    /\ \E merged \in MergedInterests(m_fresh.interests, m_session.interests) :
          LET scalars == IF ~IsEmptyPreferences(Setified(m_session))
                         THEN MergedPreferences(Setified(m_fresh), Setified(m_session))
                         ELSE Setified(m_fresh)
              written == UpdatePreferences(Setified(m_session), scalars)
          IN /\ m_result' = [scalars EXCEPT !.interests = merged]
             /\ m_stored' = [written EXCEPT !.interests =
                                 IF merged # <<>> THEN merged ELSE m_session.interests]
    /\ m_pc' = "returned"
    /\ UNCHANGED <<m_fresh, m_session>>
    /\ UNCHANGED <<raceVars, extractVars, filterVars, rankVars, managerVars, threadVars, processVars, runVars>>

\* line 76: int(FIELD_WEIGHTS[field]), the number of times a field is repeated
FieldRepeat(field) ==
    CASE field = "name" -> 0
      [] field = "occasion" -> 2
      [] OTHER -> 1

\* the words a tag, an occasion or a season adds to the joined text
TokenText == [chars |-> 5, words |-> 1, run4 |-> FALSE, numeric |-> FALSE]

\* the text of a gender or age-group string
StringText(str) ==
    [chars |-> Len(str), words |-> IF Contains(<<" ">>, str) THEN 2 ELSE 1,
     run4 |-> FALSE, numeric |-> FALSE]

\* lines 66-89: the parts join_fields puts in `result`, in CONTENT_FIELDS order
JoinedParts(prod) ==
    LET rep(field, part) == [i \in 1..FieldRepeat(field) |-> part]
        listParts(field, v) ==
            IF Truthy(v)
            THEN rep(field, [TokenText EXCEPT !.words = Len(v.items),
                                              !.chars = 6 * Len(v.items) - 1])
            ELSE <<>>
        strParts(field, str) ==
            IF str # s_empty /\ str # s_None THEN rep(field, StringText(str))
            ELSE <<>>
        textParts(field, text) ==
            IF text.chars > 0 THEN rep(field, text) ELSE <<>>
    IN textParts("name", prod.name) \o textParts("description", prod.description)
       \o listParts("tags", prod.tags) \o listParts("occasion", prod.occasion)
       \o listParts("season", prod.season) \o listParts("seasons", prod.seasons)
       \o strParts("targetGender", prod.targetGender)
       \o strParts("ageGroup", prod.ageGroup)

RECURSIVE SumOf(_, _)
SumOf(parts, field) ==
    IF parts = <<>> THEN 0 ELSE Head(parts)[field] + SumOf(Tail(parts), field)

\* line 89 and line 534: ' '.join(result).strip()
join_fields(prod) ==
    LET parts == JoinedParts(prod)
    IN IF parts = <<>> THEN EmptyText
       ELSE [chars |-> SumOf(parts, "chars") + Len(parts) - 1,
             words |-> SumOf(parts, "words"),
             run4 |-> \E i \in DOMAIN parts : parts[i].run4,
             numeric |-> \A i \in DOMAIN parts : parts[i].numeric]

\* lines 550-567: the candidate of a catalog document and its similarity
CandidateOf(prod, similarity) ==
    [id |-> prod.id, name |-> prod.name, description |-> prod.description,
     price |-> prod.price, score |-> similarity,
     tags |-> GetOrEmptyList(prod.tags), occasion |-> GetOrEmptyList(prod.occasion),
     season |-> GetOrEmptyList(prod.season), seasons |-> GetOrEmptyList(prod.seasons),
     targetGender |-> prod.targetGender, ageGroup |-> prod.ageGroup]

PassesFloor_Off(similarity) == TRUE

\* line 546: `if similarity < 0.15: continue`
PassesFloor(similarity) == ~(similarity < SimilarityFloor)

\* lines 531-570: the list `results`; sims[i] is the similarity of prods[i]
\* raises[i] tells whether model.encode raises on prods[i] (lines 568-570)
RECURSIVE ScoreProducts(_, _, _)
ScoreProducts(prods, sims, raises) ==
    IF prods = <<>> THEN <<>>
    ELSE LET prod == Head(prods)
             rest == ScoreProducts(Tail(prods), Tail(sims), Tail(raises))
         IN IF ~is_meaningful_content(join_fields(prod)) THEN rest
            ELSE IF Head(raises) THEN rest
            ELSE IF ~PassesFloor(Head(sims)) THEN rest
            ELSE <<CandidateOf(prod, Head(sims))>> \o rest

\* lines 576-584
QualityFiltered(prods) ==
    SelectSeq(prods, LAMBDA r : is_meaningful_content(r.name)
                                /\ is_meaningful_content(r.description))

\* line 590: ranked_results[:top_k]; a negative top_k counts from the end
FirstK(prods, k) ==
    IF k >= 0 THEN SubSeq(prods, 1, Min(k, Len(prods)))
    ELSE SubSeq(prods, 1, Len(prods) + k)

\* line 307: prod.get('targetGender', '').lower() on a candidate whose
\* targetGender is None is an AttributeError; the loop has no handler
FilterRaises(prods, prefs) ==
    /\ ~IsEmptyPreferences(prefs)
    /\ prefs.gender # s_empty
    /\ \E i \in DOMAIN prods : prods[i].targetGender = s_None

NoneHasNoLower == "'NoneType' object has no attribute 'lower'"

\* the dictionaries the call returns: `kind` stands for the message, `keys`
\* are the keys of the dictionary
NoResponse ==
    [kind |-> "none", products |-> <<>>, context |-> NoPreferences,
     error |-> "", keys |-> {}]

\* the text of a question of the pipeline: the request for a perfume for a
\* girl and the request for a cheap watch for a boy
QuestionText(q) ==
    CASE q = "q_girl_perfume" -> JoinWords(<<Words.ayez, Words.itr, Words.lbint>>)
      [] q = "q_boy_watch" ->
            JoinWords(<<Words.ayez, Words.saa_marbuta, Words.rakhisa_marbuta, Words.lwalad>>)
      [] OTHER -> <<>>

\* sep.join(parts)
RECURSIVE JoinWith(_, _)
JoinWith(sep, parts) ==
    IF parts = <<>> THEN <<>>
    ELSE IF Len(parts) = 1 THEN parts[1]
    ELSE parts[1] \o sep \o JoinWith(sep, Tail(parts))

MaxHistory == 3

\* lines 155-204: the text the extractor and the encoder are given.  The
\* preference keys the function looks for ('interested_in', 'occasions',
\* 'recipient_info') are keys no preference record has.
build_conversation_context(current_question, session_ctx) ==
    IF session_ctx.question_history = <<>> THEN QuestionText(current_question)
    ELSE LET history == session_ctx.question_history
             recent_history ==
                 SubSeq(history, IF Len(history) > MaxHistory
                                 THEN Len(history) - MaxHistory + 1 ELSE 1,
                        Len(history))
             texts == [i \in DOMAIN recent_history |-> QuestionText(recent_history[i])]
         IN JoinWith(<<" ">>,
                <<<<"[">> \o Words.asila \o <<" ">> \o Words.sabiqa \o <<":", " ">>
                      \o JoinWith(<<" ", ".", ".", ".", " ">>, texts) \o <<"]">>,
                  QuestionText(current_question)>>)

\* the texts suggest_products_logic can hand to the extractor
ConversationTexts ==
    {build_conversation_context(q, [question_history |-> h,
                                    user_preferences |-> NoPreferences]) :
        q \in Questions, h \in SeqsUpTo(Questions, MaxHistory)}

\* line 593: extract_context on each of these texts, computed once
ExtractedContexts ==
    {[text |-> text, context |-> extract_context(text)] : text \in ConversationTexts}

ExtractedContextOf(text) ==
    (CHOOSE e \in ExtractedContexts : e.text = text).context

\* the keys a preference record has
PresentKeys(prefs) ==
    {k \in {"gender", "age_group"} : prefs[k] # s_empty}
    \cup {k \in {"occasion", "price_range"} : prefs[k] # ""}
    \cup (IF prefs.interests # {} THEN {"interests"} ELSE {})

\* an update that leaves the extractor's list of interests in place
ContextData_KeepsExtractedInterests(extracted, prefs) ==
    [k \in DOMAIN extracted \cup PresentKeys(prefs) |->
        IF k \in PresentKeys(prefs) \ {"interests"} THEN prefs[k] ELSE extracted[k]]

\* lines 593-596: context_data.update(preferences)
ContextData(extracted, prefs) ==
    [k \in DOMAIN extracted \cup PresentKeys(prefs) |->
        IF k \in PresentKeys(prefs) THEN prefs[k] ELSE extracted[k]]

\* lines 605-610
OkResponse(top, context_data) ==
    [kind |-> "ok", products |-> top, context |-> context_data, error |-> "",
     keys |-> {"message", "products", "context", "execution_time"}]

NoProductsResponse_AsError(prefs) ==
    [kind |-> "error", products |-> <<>>, context |-> NoPreferences,
     error |-> "no products", keys |-> {"message", "products", "error"}]

\* lines 521-525
NoProductsResponse(prefs) ==
    [kind |-> "no_products", products |-> <<>>, context |-> prefs, error |-> "",
     keys |-> {"message", "products", "context"}]

\* lines 614-618
FallbackResponse(detail) ==
    [kind |-> "error", products |-> <<>>, context |-> NoPreferences,
     error |-> detail, keys |-> {"message", "products", "error"}]

Handles_NotTheLoader(step) == step # "load_model"

\* lines 475 and 612: the try block encloses every step of the pipeline and
\* `except Exception` catches what any of them raises
Handles(step) == TRUE


EmptyContext == [question_history |-> <<>>, user_preferences |-> NoPreferences]

\* time.time(): a clock that never goes back; the model reads it as the
\* number of requests submitted so far
Time == requests

PipelineInitVars ==
    /\ pc = [t \in Threads |-> "idle"]
    /\ question = [t \in Threads |-> ""]
    /\ session_id = [t \in Threads |-> NoSession]
    /\ top_k = [t \in Threads |-> 0]
    /\ model = [t \in Threads |-> NoModel]
    /\ storage = [t \in Threads |-> EmptyStorage]
    /\ session_context = [t \in Threads |-> EmptyContext]
    /\ preferences = [t \in Threads |-> NoPreferences]
    /\ products = [t \in Threads |-> <<>>]
    /\ now = [t \in Threads |-> [month |-> 1, year |-> 2026]]
    /\ results = [t \in Threads |-> <<>>]
    /\ filtered_results = [t \in Threads |-> <<>>]
    /\ top_results = [t \in Threads |-> <<>>]
    /\ response = [t \in Threads |-> NoResponse]
    /\ cache = NoModel
    /\ constructed = 0
    /\ submitted = [s \in SessionIds |-> <<>>]
    /\ requests = 0

\* A request arrives: suggest_products_logic(q, k, sid) is called on thread t
Submit(t, limit, questions, topKs, sessionIds) ==
    /\ pc[t] = "idle"
    /\ requests < limit
    /\ \E q \in questions, k \in topKs, sid \in sessionIds :
          /\ question' = [question EXCEPT ![t] = q]
          /\ top_k' = [top_k EXCEPT ![t] = k]
          /\ session_id' = [session_id EXCEPT ![t] = sid]
          /\ submitted' = IF sid = NoSession THEN submitted
                          ELSE [submitted EXCEPT ![sid] = Append(@, q)]
    /\ requests' = requests + 1
    /\ pc' = [pc EXCEPT ![t] = "coerce"]
    /\ UNCHANGED <<model, storage, session_context, preferences, products, now,
                   results, filtered_results, top_results, response>>
    /\ UNCHANGED <<raceVars, extractVars, filterVars, rankVars, mergeVars, managerVars, processVars>>

\* lines 454-462: top_k is made an int
CoerceResultCount(t) ==
    /\ pc[t] = "coerce"
    /\ top_k' = [top_k EXCEPT ![t] = CoerceTopK(top_k[t])]
    /\ pc' = [pc EXCEPT ![t] = "get_model"]
    /\ UNCHANGED <<question, session_id, model, storage, session_context,
                   preferences, products, now, results, filtered_results,
                   top_results, response>>
    /\ UNCHANGED <<raceVars, extractVars, filterVars, rankVars, mergeVars, managerVars, processVars, runVars>>

\* line 481, lru_cache: the cache is looked up under its lock; on a hit the
\* cached handle is returned, on a miss the lock is released and the loader
\* is called
CacheLookup(t) ==
    /\ pc[t] = "get_model"
    /\ IF cache # NoModel
       THEN /\ model' = [model EXCEPT ![t] = cache]
            /\ pc' = [pc EXCEPT ![t] = "session"]
       ELSE /\ model' = model
            /\ pc' = [pc EXCEPT ![t] = "load_model"]
    /\ UNCHANGED <<question, session_id, top_k, storage, session_context,
                   preferences, products, now, results, filtered_results,
                   top_results, response>>
    /\ UNCHANGED <<raceVars, extractVars, filterVars, rankVars, mergeVars, managerVars, processVars, runVars>>

\* lines 28-29: the loader builds a SentenceTransformer, a new object
LoadModel(t) ==
    /\ pc[t] = "load_model"
    /\ constructed' = constructed + 1
    /\ model' = [model EXCEPT ![t] = constructed + 1]
    /\ pc' = [pc EXCEPT ![t] = "cache_model"]
    /\ UNCHANGED cache
    /\ UNCHANGED <<question, session_id, top_k, storage, session_context,
                   preferences, products, now, results, filtered_results,
                   top_results, response>>
    /\ UNCHANGED <<raceVars, extractVars, filterVars, rankVars, mergeVars, managerVars, runVars>>

\* lru_cache after the call: the result is stored unless the key was added
\* meanwhile; the caller gets the object its own call built either way
CacheStore(t) ==
    /\ pc[t] = "cache_model"
    /\ cache' = IF cache = NoModel THEN model[t] ELSE cache
    /\ pc' = [pc EXCEPT ![t] = "session"]
    /\ UNCHANGED constructed
    /\ UNCHANGED <<question, session_id, top_k, model, storage, session_context,
                   preferences, products, now, results, filtered_results,
                   top_results, response>>
    /\ UNCHANGED <<raceVars, extractVars, filterVars, rankVars, mergeVars, managerVars, runVars>>

\* lines 484-495: a SessionManager of the call's own, with a storage of its
\* own, is built; the session is read from it and the question appended
GetSession(t) ==
    /\ pc[t] = "session"
    /\ LET session_manager == EmptyStorage
           sid == session_id[t]
       IN IF sid # NoSession
          THEN /\ storage' = [storage EXCEPT ![t] =
                                 get_session_storage(session_manager, sid, Time)]
               /\ session_context' = [session_context EXCEPT ![t] =
                     SessionContextOf(get_session(session_manager, sid, Time),
                                      sid, question[t])]
          ELSE /\ storage' = [storage EXCEPT ![t] = session_manager]
               /\ session_context' = [session_context EXCEPT ![t] = EmptyContext]
    /\ pc' = [pc EXCEPT ![t] = "merge"]
    /\ UNCHANGED <<question, session_id, top_k, model, preferences, products, now,
                   results, filtered_results, top_results, response>>
    /\ UNCHANGED <<raceVars, extractVars, filterVars, rankVars, mergeVars, managerVars, processVars, runVars>>

\* lines 498-511
MergePreferences(t) ==
    /\ pc[t] = "merge"
    /\ preferences' = [preferences EXCEPT ![t] =
          LET fresh == extract_user_preferences(question[t])
              sess == session_context[t].user_preferences
          IN IF ~IsEmptyPreferences(sess) THEN MergedPreferences(fresh, sess)
             ELSE fresh]
    /\ pc' = [pc EXCEPT ![t] = "update"]
    /\ UNCHANGED <<question, session_id, top_k, model, storage, session_context,
                   products, now, results, filtered_results, top_results, response>>
    /\ UNCHANGED <<raceVars, extractVars, filterVars, rankVars, mergeVars, managerVars, processVars, runVars>>

\* lines 514-516
UpdateSession(t) ==
    /\ pc[t] = "update"
    /\ IF session_id[t] # NoSession
       THEN LET ctx == [session_context[t] EXCEPT !.user_preferences = preferences[t]]
            IN /\ session_context' = [session_context EXCEPT ![t] = ctx]
               /\ storage' = [storage EXCEPT ![t] =
                                 update_session(@, session_id[t], ctx, Time)]
       ELSE UNCHANGED <<session_context, storage>>
    /\ pc' = [pc EXCEPT ![t] = "catalog"]
    /\ UNCHANGED <<question, session_id, top_k, model, preferences, products, now,
                   results, filtered_results, top_results, response>>
    /\ UNCHANGED <<raceVars, extractVars, filterVars, rankVars, mergeVars, managerVars, processVars, runVars>>

\* lines 519-525: the catalog is read; an empty one ends the request
ReadCatalog(t, snapshots) ==
    /\ pc[t] = "catalog"
    /\ \E snapshot \in snapshots :
          /\ products' = [products EXCEPT ![t] = snapshot]
          /\ IF snapshot = <<>>
             THEN /\ response' = [response EXCEPT ![t] =
                        NoProductsResponse(preferences[t])]
                  /\ pc' = [pc EXCEPT ![t] = "done"]
             ELSE /\ response' = response
                  /\ pc' = [pc EXCEPT ![t] = "score"]
    /\ UNCHANGED <<question, session_id, top_k, model, storage, session_context,
                   preferences, now, results, filtered_results, top_results>>
    /\ UNCHANGED <<raceVars, extractVars, filterVars, rankVars, mergeVars, managerVars, processVars, runVars>>

\* lines 528-610: the candidates are scored, filtered, ranked and cut
\* an exception of the filter ends the request at lines 612-618
ScoreAndRank(t, similarities, dates, failures) ==
    /\ pc[t] = "score"
    /\ \E sims \in [1..Len(products[t]) -> similarities], date \in dates,
          failed \in failures :
          LET raises == [i \in 1..Len(products[t]) |-> i \in failed]
              scored == ScoreProducts(products[t], sims, raises)
              filtered == filter_products_by_preferences(scored, preferences[t])
              ranked == re_rank_products(QualityFiltered(filtered), preferences[t], date)
              top == FirstK(ranked, top_k[t])
          IN /\ now' = [now EXCEPT ![t] = date]
             /\ results' = [results EXCEPT ![t] = scored]
             /\ IF FilterRaises(scored, preferences[t])
                THEN /\ UNCHANGED <<filtered_results, top_results>>
                     /\ response' = [response EXCEPT ![t] =
                                        FallbackResponse(NoneHasNoLower)]
                ELSE /\ filtered_results' = [filtered_results EXCEPT ![t] = filtered]
                     /\ top_results' = [top_results EXCEPT ![t] = top]
                     /\ response' = [response EXCEPT ![t] =
                                        OkResponse(top, ContextData(
                                            ExtractedContextOf(build_conversation_context(
                                                question[t], session_context[t])),
                                            preferences[t]))]
    /\ pc' = [pc EXCEPT ![t] = "done"]
    /\ UNCHANGED <<question, session_id, top_k, model, storage, session_context,
                   preferences, products>>
    /\ UNCHANGED <<raceVars, extractVars, filterVars, rankVars, mergeVars, managerVars, processVars, runVars>>

\* a step of the pipeline raises: the loader (line 29), the session manager
\* or the context builder (lines 485-498), the catalog read (line 519), the
\* embedding of the context, the ranking or the message (lines 528-599)
Raise(t, steps) ==
    /\ pc[t] \in steps
    /\ IF Handles(pc[t])
       THEN /\ response' = [response EXCEPT ![t] = FallbackResponse(pc[t])]
            /\ pc' = [pc EXCEPT ![t] = "done"]
       ELSE /\ response' = response
            /\ pc' = [pc EXCEPT ![t] = "raised"]
    /\ UNCHANGED <<question, session_id, top_k, model, storage, session_context,
                   preferences, products, now, results, filtered_results,
                   top_results>>
    /\ UNCHANGED <<raceVars, extractVars, filterVars, rankVars, mergeVars, managerVars, processVars, runVars>>

\* the steps that call into a library or a service
RaisingSteps == {"load_model", "session", "catalog", "score"}

\* the call returns: its locals, the session manager among them, are gone
Return(t) ==
    /\ pc[t] = "done"
    /\ pc' = [pc EXCEPT ![t] = "idle"]
    /\ question' = [question EXCEPT ![t] = ""]
    /\ session_id' = [session_id EXCEPT ![t] = NoSession]
    /\ top_k' = [top_k EXCEPT ![t] = 0]
    /\ model' = [model EXCEPT ![t] = NoModel]
    /\ storage' = [storage EXCEPT ![t] = EmptyStorage]
    /\ session_context' = [session_context EXCEPT ![t] = EmptyContext]
    /\ preferences' = [preferences EXCEPT ![t] = NoPreferences]
    /\ products' = [products EXCEPT ![t] = <<>>]
    /\ now' = [now EXCEPT ![t] = [month |-> 1, year |-> 2026]]
    /\ results' = [results EXCEPT ![t] = <<>>]
    /\ filtered_results' = [filtered_results EXCEPT ![t] = <<>>]
    /\ top_results' = [top_results EXCEPT ![t] = <<>>]
    /\ response' = [response EXCEPT ![t] = NoResponse]
    /\ UNCHANGED <<raceVars, extractVars, filterVars, rankVars, mergeVars, managerVars, processVars, runVars>>

-----------------------------------------------------------------------------
(* Specifications *)

\* one worker thread serves the requests one after the other
Init == FilterIdle /\ RankIdle /\ MergeIdle /\ ManagerIdle /\ PipelineInitVars /\ ExtractIdle
    /\ RaceIdle

Next ==
    \E t \in {"t1"} :
        \/ Submit(t, MaxRequests, Questions, TopKs, SessionIds \cup {NoSession})
        \/ CoerceResultCount(t)
        \/ CacheLookup(t)
        \/ LoadModel(t)
        \/ CacheStore(t)
        \/ GetSession(t)
        \/ MergePreferences(t)
        \/ UpdateSession(t)
        \/ ReadCatalog(t, Catalogs)
        \/ ScoreAndRank(t, Similarities, RequestDates, EncodeFailures)
        \/ Raise(t, RaisingSteps)
        \/ Return(t)

Spec == Init /\ [][Next]_vars

\* one worker thread serves a series of requests that bear the same session id
HistoryNext ==
    \E t \in {"t1"} :
        \/ Submit(t, MaxSessionRequests, Questions, {IntArg(5)}, SessionIds)
        \/ CoerceResultCount(t)
        \/ CacheLookup(t)
        \/ LoadModel(t)
        \/ CacheStore(t)
        \/ GetSession(t)
        \/ MergePreferences(t)
        \/ UpdateSession(t)
        \/ ReadCatalog(t, {<<Perfume, Watch>>})
        \/ ScoreAndRank(t, {60}, {[month |-> 7, year |-> 2026]}, {{}})
        \/ Return(t)

SpecHistory == Init /\ [][HistoryNext]_vars

\* the worker threads serve requests of one session side by side
ConcurrentNext ==
    \E t \in Threads :
        \/ Submit(t, MaxConcurrentRequests, Questions, {IntArg(5)}, SessionIds)
        \/ CoerceResultCount(t)
        \/ CacheLookup(t)
        \/ LoadModel(t)
        \/ CacheStore(t)
        \/ GetSession(t)
        \/ MergePreferences(t)
        \/ UpdateSession(t)
        \/ ReadCatalog(t, {<<Perfume, Watch>>})
        \/ ScoreAndRank(t, {60}, {[month |-> 7, year |-> 2026]}, {{}})
        \/ Return(t)

SpecConcurrent == Init /\ [][ConcurrentNext]_vars

\* filter_products_by_preferences called on every drawn input
FilterInit ==
    FilterInitVars /\ RankIdle /\ MergeIdle /\ ManagerIdle /\ PipelineInitVars /\ ExtractIdle
    /\ RaceIdle
FilterNext == FilterReturn
SpecFilter == FilterInit /\ [][FilterNext]_vars

\* re_rank_products called on every drawn input
RankInit ==
    FilterIdle /\ RankInitVars /\ MergeIdle /\ ManagerIdle /\ PipelineInitVars /\ ExtractIdle
    /\ RaceIdle
RankNext == RankReturn
SpecRank == RankInit /\ [][RankNext]_vars


\* the preference merge called on every drawn input
MergeInit ==
    FilterIdle /\ RankIdle /\ MergeInitVars /\ ManagerIdle /\ PipelineInitVars /\ ExtractIdle
    /\ RaceIdle
MergeNext == MergeReturn
SpecMerge == MergeInit /\ [][MergeNext]_vars

\* update_session called on a driven SessionManager
UpdateInit ==
    FilterIdle /\ RankIdle /\ MergeIdle /\ ManagerInitVars /\ PipelineInitVars /\ ExtractIdle
    /\ RaceIdle
UpdateNext ==
    \/ CreateSession(MaxUpdatedSessions)
    \/ \E sid \in Uuids, data \in Updates : UpdateSessionCall(sid, data)
    \/ Tick({86400})
SpecUpdate == UpdateInit /\ [][UpdateNext]_vars

\* sessions created, read, deleted and swept on a driven SessionManager
ManagerNext ==
    \/ CreateSession(MaxSessions)
    \/ \E sid \in Uuids : GetSessionCall(sid)
    \/ \E sid \in Uuids : DeleteSessionCall(sid)
    \/ Tick(Instants)
SpecManager == UpdateInit /\ [][ManagerNext]_vars

\* a session created, then read, updated, extended and deleted by calls
\* that run side by side
RaceNext ==
    \/ CreateSession(MaxRaceSessions)
    \/ \E c \in Callers, op \in ReadWriteOperations, sid \in Uuids, data \in RaceUpdates :
           BeginCall(c, op, sid, IF op = "update_session" THEN data ELSE Mapping(<<>>))
    \/ \E c \in Callers : WriteBack(c)
    \/ \E sid \in Uuids : DeleteBetween(sid)
SpecRace == UpdateInit /\ [][RaceNext]_vars

\* extract_context called on every drawn question
ExtractInit ==
    FilterIdle /\ RankIdle /\ MergeIdle /\ ManagerIdle /\ PipelineInitVars /\ ExtractInitVars
    /\ RaceIdle
ExtractNext == ExtractReturn
SpecExtract == ExtractInit /\ [][ExtractNext]_vars

-----------------------------------------------------------------------------
(* Claims *)

\* the session stored under the request's session id in the storage of the
\* session manager the request uses (the only storage the request can reach)
StoredSession(t) == storage[t][session_id[t]]

\* thread t serves a request that bears a session id and no other thread
\* serves one
ServesAlone(t) ==
    /\ session_id[t] # NoSession
    /\ \A u \in Threads \ {t} : pc[u] = "idle"

\* the last five (or fewer) questions submitted on session sid, oldest first
RecentQuestions(sid) ==
    LET n == Len(submitted[sid])
    IN [i \in 1..(IF n > 5 THEN 5 ELSE n) |->
           submitted[sid][(IF n > 5 THEN n - 5 ELSE 0) + i]]

\* C1 (as claimed): when the N-th request on a session has been served, the
\* history stored for the session is the last 5 questions submitted on it,
\* in submission order (all N of them for N <= 5)
C1_BoundedHistory ==
    \A t \in Threads :
        (pc[t] = "done" /\ ServesAlone(t)) =>
            /\ StoredSession(t).exists
            /\ StoredSession(t).question_history = RecentQuestions(session_id[t])

\* C2 (as claimed): a request with a session id the store does not hold
\* creates the session: once served, the store holds the id with the question
\* in its history and the merged preferences, and the next request with the
\* id reads them back
C2_SessionCreated ==
    \A t \in Threads :
        /\ (pc[t] = "done" /\ ServesAlone(t)) =>
              /\ StoredSession(t).exists
              /\ question[t] \in Range(StoredSession(t).question_history)
              /\ StoredSession(t).user_preferences = preferences[t]
        /\ (pc[t] = "merge" /\ ServesAlone(t)) =>
              session_context[t].question_history = RecentQuestions(session_id[t])

\* C3 (as claimed): the merged preference record is in the Session Store
\* before the catalog is read, so that the interests stored for the session
\* hold every interest merged so far
C3_SavedBeforeScoring ==
    \A t \in Threads :
        (pc[t] = "catalog" /\ ServesAlone(t)) =>
            /\ StoredSession(t).exists
            /\ preferences[t].interests \subseteq StoredSession(t).user_preferences.interests

\* C4 (as claimed): when two requests on one session have run side by side
\* and both are served, the stored session holds the question and the
\* interests of both
C4_NoLostUpdate ==
    \A t, u \in Threads :
        (t # u /\ pc[t] = "done" /\ pc[u] = "done"
           /\ session_id[t] # NoSession /\ session_id[t] = session_id[u]) =>
            \E w \in {t, u} :
                /\ StoredSession(w).exists
                /\ {question[t], question[u]}
                      \subseteq Range(StoredSession(w).question_history)
                /\ extract_user_preferences(question[t]).interests
                      \cup extract_user_preferences(question[u]).interests
                      \subseteq StoredSession(w).user_preferences.interests

\* C5 (as claimed): the embedding model is built once in the process and
\* every caller holds that one handle
C5_SingleModel ==
    /\ constructed <= 1
    /\ \A t, u \in Threads :
          (model[t] # NoModel /\ model[u] # NoModel) => model[t] = model[u]

\* the places of the candidates the filter loop keeps: not skipped, score > 0
KeptPlaces ==
    {i \in DOMAIN f_products : PreferenceScore(f_products[i], f_preferences) > 0}

\* C6: filter_products_by_preferences returns its input unchanged when the
\* loop keeps no candidate, and otherwise the candidates with a preference
\* score above 0, in input order, each with its score
C6_FilterNeverEmpties ==
    f_pc = "returned" =>
        IF KeptPlaces = {} THEN f_result = f_products
        ELSE /\ Len(f_result) = Cardinality(KeptPlaces)
             /\ \A j \in DOMAIN f_result :
                   /\ f_result[j].id \in KeptPlaces
                   /\ Stripped(f_result[j]) = f_products[f_result[j].id]
                   /\ f_result[j].preference_score
                         = PreferenceScore(f_products[f_result[j].id], f_preferences)
             /\ \A j, k \in DOMAIN f_result :
                   j < k => f_result[j].id < f_result[k].id

\* C6, its case: preferences are given, every candidate is skipped or scores
\* 0, one of them skipped for its gender, and the input came back
C6_Witness ==
    /\ f_pc = "returned" /\ Len(f_products) = 2 /\ KeptPlaces = {}
    /\ ~IsEmptyPreferences(f_preferences)
    /\ \E i \in DOMAIN f_products : GenderExcludes(f_products[i], f_preferences)
    /\ f_result = f_products

\* the target gender of a candidate is none, unisex or the preferred one
GenderAllowed(prod, prefs) ==
    Lower(prod.targetGender) \in {s_empty, s_unisex, prefs.gender}

\* C7 (as claimed): with a preferred gender, no item of the output targets
\* the other gender
C7_NoOppositeGender ==
    (f_pc = "returned" /\ f_preferences.gender # s_empty) =>
        \A j \in DOMAIN f_result : GenderAllowed(f_result[j], f_preferences)

\* C7 (amended): with a preferred gender, no item the filter loop kept (an
\* item of the output that carries a preference_score) targets the other
\* gender; the fall-back to the unfiltered list is not covered
C7_NoOppositeGenderAmongKept ==
    (f_pc = "returned" /\ f_preferences.gender # s_empty) =>
        \A j \in DOMAIN f_result :
            "preference_score" \in DOMAIN f_result[j]
                => GenderAllowed(f_result[j], f_preferences)

\* C7, its case: a candidate for the other gender was in the input and the
\* loop kept another candidate
C7_Witness ==
    /\ f_pc = "returned" /\ f_preferences.gender # s_empty
    /\ \E i \in DOMAIN f_products : ~GenderAllowed(f_products[i], f_preferences)
    /\ \E j \in DOMAIN f_result : "preference_score" \in DOMAIN f_result[j]

\* the age group of a candidate mentions children or kids
ForChildren(prod) ==
    \/ Contains(s_children, Lower(prod.ageGroup))
    \/ Contains(s_kids, Lower(prod.ageGroup))

\* C8 (as claimed, for the outputs that are not the fall-back of C6): when
\* children are asked for, every item the filter kept has an age group that
\* mentions children or kids and scored at least the 3 points of that match;
\* for another age group, a candidate whose age group contains it and that
\* is not skipped for its gender is in the output with at least 2 points
C8_ChildrenOnly ==
    f_pc = "returned" =>
        /\ f_preferences.age_group = s_children =>
              \A j \in DOMAIN f_result :
                  "preference_score" \in DOMAIN f_result[j] =>
                      /\ ForChildren(f_result[j])
                      /\ f_result[j].preference_score >= 3
        /\ f_preferences.age_group \notin {s_empty, s_children} =>
              \A i \in DOMAIN f_products :
                  (/\ Contains(f_preferences.age_group, Lower(f_products[i].ageGroup))
                   /\ (f_preferences.gender = s_empty
                         \/ GenderAllowed(f_products[i], f_preferences)))
                  => \E j \in DOMAIN f_result :
                        /\ f_result[j].id = i
                        /\ "preference_score" \in DOMAIN f_result[j]
                        /\ f_result[j].preference_score >= 2

\* a ranked candidate without its final score
Unranked(prod) == [k \in DOMAIN prod \ {"final_score"} |-> prod[k]]

\* C9: re_rank_products returns a permutation of its input in non-increasing
\* order of final_score, and candidates of equal final_score keep the order
\* they had in the input
C9_StableDescending ==
    r_pc = "returned" =>
        /\ Len(r_result) = Len(r_products)
        /\ {r_result[j].id : j \in DOMAIN r_result} = DOMAIN r_products
        /\ \A j \in DOMAIN r_result : Unranked(r_result[j]) = r_products[r_result[j].id]
        /\ \A j, k \in DOMAIN r_result :
              j < k =>
                 /\ r_result[j].final_score >= r_result[k].final_score
                 /\ r_result[j].final_score = r_result[k].final_score
                       => r_result[j].id < r_result[k].id

\* C9, its case: the ranking moved a candidate up and two candidates tie
C9_Witness ==
    /\ r_pc = "returned"
    /\ \E j, k \in DOMAIN r_result :
          j < k /\ r_result[j].id > r_result[k].id
    /\ \E j, k \in DOMAIN r_result :
          j < k /\ r_result[j].final_score = r_result[k].final_score

\* C10: every product a request returns has a similarity of at least 0.15
C10_SimilarityFloor ==
    \A t \in Threads :
        \A i \in DOMAIN response[t].products :
            response[t].products[i].score >= 15

\* C10, its case: a catalog item fell under the floor, the preference filter
\* kept nothing and fell back to the unfiltered candidates, and a product
\* was returned
C10_Witness ==
    \E t \in Threads :
        /\ pc[t] = "done" /\ response[t].kind = "ok"
        /\ response[t].products # <<>>
        /\ ~IsEmptyPreferences(preferences[t])
        /\ results[t] # <<>> /\ filtered_results[t] = results[t]
        /\ Len(results[t]) < Len(products[t])

\* C11 (as claimed): whatever value a request passes as top_k, the result
\* count the request works with after the coercion is a positive integer
C11_PositiveResultCount ==
    \A t \in Threads :
        pc[t] \notin {"idle", "coerce"} => top_k[t] \in Nat \ {0}

\* the ranked list of the request thread t has served, lines 576-587
RankedResults(t) ==
    re_rank_products(QualityFiltered(filtered_results[t]), preferences[t], now[t])

\* C12 (as claimed): a served request returns at most top_k products (none
\* where top_k is below zero), and they are the leading items of the ranked
\* list, in ranked order
C12_AtMostTopK ==
    \A t \in Threads :
        (pc[t] = "done" /\ response[t].kind = "ok") =>
            /\ Len(response[t].products) <= (IF top_k[t] < 0 THEN 0 ELSE top_k[t])
            /\ response[t].products
                  = SubSeq(RankedResults(t), 1, Len(response[t].products))

\* C13: no exception leaves suggest_products_logic: whichever step raises,
\* the call ends by returning the fallback, which has an empty product
\* list, the apology for a message, the error detail and no other key
C13_NoExceptionEscapes ==
    \A t \in Threads :
        /\ pc[t] # "raised"
        /\ (pc[t] = "done" /\ response[t].kind \notin {"ok", "no_products"}) =>
              /\ response[t].kind = "error"
              /\ response[t].products = <<>>
              /\ response[t].error # ""
              /\ response[t].keys = {"message", "products", "error"}

\* the catalog read of a request raised and the request ended in the fallback
C13_Witness ==
    \E t \in Threads :
        /\ pc[t] = "done" /\ response[t].kind = "error"
        /\ response[t].error = "catalog"

\* C14 (as claimed): a candidate whose fields make the preference filter
\* raise is dropped alone: a request whose scored candidates hold such a
\* candidate next to others still ends with the regular response
C14_ItemFailureDropsItem ==
    \A t \in Threads :
        (/\ pc[t] = "done"
         /\ \E i, j \in DOMAIN results[t] :
               /\ results[t][i].targetGender = s_None
               /\ results[t][j].targetGender # s_None) =>
            response[t].kind = "ok"

\* prefs holds every preference mined from question q
HoldsMined(prefs, q) ==
    LET mined == extract_user_preferences(q)
    IN /\ mined.gender # s_empty => prefs.gender = mined.gender
       /\ mined.age_group # s_empty => prefs.age_group = mined.age_group
       /\ mined.occasion # "" => prefs.occasion = mined.occasion
       /\ mined.price_range # "" => prefs.price_range = mined.price_range
       /\ mined.interests \subseteq prefs.interests

\* C15: a request that reads an empty catalog returns no product, the
\* message of the empty catalog, no error key, and a context that holds what
\* was mined from the question
C15_EmptyCatalog ==
    \A t \in Threads :
        (/\ pc[t] = "done" /\ products[t] = <<>>
         /\ response[t].error \notin RaisingSteps) =>
            /\ response[t].kind = "no_products"
            /\ response[t].products = <<>>
            /\ response[t].keys = {"message", "products", "context"}
            /\ HoldsMined(response[t].context, question[t])

\* a request for a cheap watch for a boy met an empty catalog
C15_Witness ==
    \E t \in Threads :
        /\ pc[t] = "done" /\ products[t] = <<>>
        /\ response[t].kind = "no_products"
        /\ response[t].context.gender = s_male
        /\ response[t].context.price_range = "budget"

\* the scalar keys of a preference record
ScalarKeys == {"gender", "age_group", "occasion", "price_range"}

\* key k is absent from the preference record
Absent(prefs, k) ==
    IF k \in {"gender", "age_group"} THEN prefs[k] = s_empty
    ELSE IF k = "interests" THEN prefs[k] = <<>>
    ELSE prefs[k] = ""

NoDuplicates(list) == Cardinality(Range(list)) = Len(list)

\* C16: the merge gives each key the session's value where the fresh map
\* lacks the key, the duplicate-free union where both hold a list, and the
\* fresh value otherwise; a key neither map holds is absent from the result
C16_MergeRule ==
    m_pc = "returned" =>
        /\ \A k \in ScalarKeys :
              m_result[k] = IF Absent(m_fresh, k) THEN m_session[k] ELSE m_fresh[k]
        /\ Absent(m_fresh, "interests") => m_result.interests = m_session.interests
        /\ (~Absent(m_fresh, "interests") /\ ~Absent(m_session, "interests")) =>
              /\ Range(m_result.interests)
                    = Range(m_fresh.interests) \cup Range(m_session.interests)
              /\ NoDuplicates(m_result.interests)
        /\ (~Absent(m_fresh, "interests") /\ Absent(m_session, "interests")) =>
              m_result.interests = m_fresh.interests
        /\ \A k \in ScalarKeys \cup {"interests"} :
              (Absent(m_fresh, k) /\ Absent(m_session, k)) => Absent(m_result, k)

\* both maps hold interests, one of them in common; the gender comes from
\* the session and the price range from the fresh map
C16_Witness ==
    /\ m_pc = "returned"
    /\ Range(m_fresh.interests) \cap Range(m_session.interests) # {}
    /\ Range(m_fresh.interests) # Range(m_session.interests)
    /\ Absent(m_fresh, "gender") /\ m_result.gender = s_female
    /\ m_fresh.price_range = "premium" /\ m_session.price_range = "budget"

C18_MergeIdempotent ==
    (m_pc = "returned" /\ Setified(m_fresh) = Setified(m_session)) =>
        /\ \A k \in ScalarKeys : m_result[k] = m_session[k]
        /\ Range(m_result.interests) = Range(m_session.interests)
        /\ Len(m_result.interests) = Len(m_session.interests)
        /\ Setified(m_stored) = Setified(m_session)
        /\ Len(m_stored.interests) = Len(m_session.interests)

\* a record with a gender and two interests was merged with a session
\* record of the same content
C18_Witness ==
    /\ m_pc = "returned"
    /\ Setified(m_fresh) = Setified(m_session)
    /\ m_fresh.gender = s_female
    /\ Len(m_fresh.interests) = 2

\* what a session dictionary holds under a path of keys
Undefined == Leaf("<undefined>")

RECURSIVE ValueAt(_, _)
ValueAt(node, path) ==
    IF path = <<>> THEN node
    ELSE IF node.map /\ Head(path) \in DOMAIN node.items
         THEN ValueAt(node.items[Head(path)], Tail(path))
         ELSE Undefined

\* the key paths of a session dictionary
RECURSIVE PathsOf(_)
PathsOf(node) ==
    IF ~node.map THEN {<<>>}
    ELSE {<<>>} \cup UNION {{<<key>> \o path : path \in PathsOf(node.items[key])} :
                                key \in DOMAIN node.items}

\* the proper prefixes of a path
Prefixes(path) == {SubSeq(path, 1, n) : n \in 0..(Len(path) - 1)}

\* the stored value and the update value under the path are both mappings
BothMappings(stored, data, path) ==
    ValueAt(stored, path).map /\ ValueAt(data, path).map

\* the update holds a value under the path that is not merged key by key
Replaces(stored, data, path) ==
    /\ ValueAt(data, path) # Undefined
    /\ ~BothMappings(stored, data, path)
    /\ \A q \in Prefixes(path) : BothMappings(stored, data, q)

\* the update mentions neither the path nor a path that leads to it
NotMentioned(stored, data, path) ==
    /\ ValueAt(data, path) = Undefined
    /\ \A q \in Prefixes(path) : ~Replaces(stored, data, q)

\* C19: update_session on a stored session replaces what the update holds
\* under a path, merging key by key where the stored value and the update
\* value are both mappings; every path the update does not mention keeps
\* its value, last_accessed is set to the time of the call, and no other
\* session changes. On an unknown id it returns False and stores nothing
C19_RecursiveUpdate ==
    [][sm_returned'.op = "update_session" =>
        LET sid == sm_returned'.id
            data == sm_returned'.data
            stored == sm_sessions[sid].body
            after == sm_sessions'[sid].body
        IN IF sm_sessions[sid].exists
           THEN /\ sm_returned'.result = TRUE
                /\ sm_sessions'[sid].exists
                /\ sm_sessions'[sid].last_accessed = sm_clock
                /\ \A path \in PathsOf(stored) \cup PathsOf(data) \cup PathsOf(after) :
                      /\ Replaces(stored, data, path) =>
                            ValueAt(after, path) = ValueAt(data, path)
                      /\ NotMentioned(stored, data, path) =>
                            ValueAt(after, path) = ValueAt(stored, path)
                /\ \A other \in Uuids \ {sid} : sm_sessions'[other] = sm_sessions[other]
           ELSE /\ sm_returned'.result = FALSE
                /\ sm_sessions' = sm_sessions
    ]_vars

\* a session was given a last message and then a language: both are
\* stored, next to the history and the metadata it was created with
C19_Witness ==
    /\ sm_returned.op = "update_session" /\ sm_returned.result = TRUE
    /\ LET body == sm_sessions[sm_returned.id].body
       IN /\ ValueAt(body, <<"context", "last_message">>) = Leaf("hello")
          /\ ValueAt(body, <<"context", "preferences", "language">>) = Leaf("ar")
          /\ ValueAt(body, <<"context", "history">>) = Leaf("[]")
          /\ ValueAt(body, <<"metadata", "session_count">>) = Leaf(1)
          /\ sm_sessions[sm_returned.id].last_accessed = 86400

\* C20: a stored session leaves the store only when delete_session is called
\* on it or when a sweep finds it more than 86400 s old; a sweep removes
\* every session that old and changes no other; and a sweep runs only when
\* more than 3600 s have passed since the last one (or since the manager
\* was built)
C20_LeavesByDeleteOrSweep ==
    [][/\ \A sid \in Uuids :
             (sm_sessions[sid].exists /\ ~sm_sessions'[sid].exists) =>
                 \/ sm_returned'.op = "delete_session" /\ sm_returned'.id = sid
                 \/ /\ sm_returned'.swept
                    /\ sm_clock - sm_sessions[sid].last_accessed > 86400
       /\ sm_returned'.swept =>
             /\ \A sid \in Uuids :
                   sm_sessions[sid].exists =>
                       IF sm_clock - sm_sessions[sid].last_accessed > 86400
                       THEN ~sm_sessions'[sid].exists
                       ELSE sm_sessions'[sid] = sm_sessions[sid]
             /\ sm_clock - sm_last_cleanup > 3600
             /\ sm_last_cleanup' = sm_clock
    ]_vars

\* the sweep of a create_session call removed the session created a day and
\* a second earlier
C20_Witness ==
    /\ sm_returned.op = "create_session" /\ sm_returned.swept
    /\ sm_returned.id = "u2"
    /\ ~sm_sessions["u1"].exists /\ sm_sessions["u2"].exists
    /\ sm_clock = 86401 /\ sm_last_cleanup = 86401

-----------------------------------------------------------------------------
(* The context extractor *)

\* the keys of the record extract_context returns
ContextKeys ==
    {"occasion", "recipient_type", "relationship", "age", "interests",
     "budget", "urgency", "gender", "other_details"}

\* the categories of a keyword table that have a keyword with a whole-word
\* match in the text, by their place in the table
MatchedCategories(text, keywords_dict) ==
    {c \in DOMAIN keywords_dict :
        \E k \in DOMAIN keywords_dict[c].keywords :
            KeywordMatches(keywords_dict[c].keywords[k], text)}

\* the question of the extractor harness, normalized
Normalized == preprocess_text(x_question)

\* no pattern of the age step matches, and none of the budget step
AgeUnmatched ==
    /\ AGE_REGEX_search(Normalized) = <<>>
    /\ MatchedCategories(Normalized, AGE_GROUP_KEYWORDS) = {}
BudgetUnmatched ==
    /\ BUDGET_REGEX_RANGE_matches(Normalized) = {}
    /\ BUDGET_REGEX_APPROX_matches(Normalized) = {}
    /\ BUDGET_REGEX_NUMBER_matches(Normalized) = {}
    /\ MatchedCategories(Normalized, BUDGET_QUALITATIVE_KEYWORDS) = {}

\* C21: extract_context returns for every question (it has no raising
\* path), the record it returns has the nine keys, and a field nothing in
\* the text matches has its default: None for occasion, recipient_type,
\* relationship and urgency, None for gender when no gender keyword matches
\* and there is no recipient type or relationship to infer it from, {} for
\* age and budget, no interest for interests
C21_DefaultsWhenUnmatched ==
    x_pc = "returned" =>
        /\ DOMAIN x_context = ContextKeys
        /\ MatchedCategories(Normalized, OCCASIONS_KEYWORDS) = {}
               => x_context.occasion = None
        /\ MatchedCategories(Normalized, RECIPIENT_TYPES_KEYWORDS) = {}
               => x_context.recipient_type = None
        /\ MatchedCategories(Normalized, RELATIONSHIP_KEYWORDS) = {}
               => x_context.relationship = None
        /\ MatchedCategories(Normalized, URGENCY_KEYWORDS) = {}
               => x_context.urgency = None
        /\ ( /\ MatchedCategories(Normalized, GENDER_KEYWORDS) = {}
             /\ MatchedCategories(Normalized, RECIPIENT_TYPES_KEYWORDS) = {}
             /\ MatchedCategories(Normalized, RELATIONSHIP_KEYWORDS) = {} )
               => x_context.gender = None
        /\ AgeUnmatched => x_context.age = EmptyDict
        /\ BudgetUnmatched => x_context.budget = EmptyDict
        /\ MatchedCategories(Normalized, INTERESTS_KEYWORDS) = {}
               => x_context.interests = {}

\* the greeting of the authors' test, typed with a hamza and stray blanks:
\* nothing matches, every field has its default and the text is kept
\* normalized
C21_Witness ==
    /\ x_pc = "returned"
    /\ x_question = <<" ">> \o Words.ahlan \o <<" ", " ">> \o Words.bik
    /\ x_context = [occasion |-> None, recipient_type |-> None,
                    relationship |-> None, age |-> EmptyDict, interests |-> {},
                    budget |-> EmptyDict, urgency |-> None, gender |-> None,
                    other_details |->
                        <<"alef", "heh", "lam", "alef", " ", "beh", "yeh", "kaf">>]

\* C22: a question that holds the words "lwalad sahbi" (a keyword of the
\* boy category next to a keyword of the friend category) has the recipient
\* type friend, and a question that holds "lzamili fi alshughl" has the
\* recipient type colleague and the inferred gender male, as the authors'
\* tests expect
C22_RecipientTheTestsExpect ==
    x_pc = "returned" =>
        /\ Contains(JoinWords(<<Words.lwalad, Words.sahbi>>), Normalized)
               => x_context.recipient_type = "sadiq"
        /\ Contains(JoinWords(<<Words.lzamili, Words.fi, Words.alshughl>>), Normalized)
               => /\ x_context.recipient_type = "zamil_amal"
                  /\ x_context.gender = "dhakar"

\* what a single-valued field is when the keyword table decides it: the
\* first category, in the declared order of the table, that has a keyword
\* with a whole-word match in the normalized question; and the field is
\* None only when no category of the table has one
FirstCategoryWins(value, keywords_dict) ==
    LET matched == MatchedCategories(Normalized, keywords_dict)
    IN /\ matched # {} => value = keywords_dict[MinOf(matched)].category
       /\ value = None => matched = {}

C24_QualitativeAlwaysStored ==
    LET matched == MatchedCategories(Normalized, BUDGET_QUALITATIVE_KEYWORDS)
    IN (x_pc = "returned" /\ matched # {}) =>
            /\ x_context.budget # EmptyDict
            /\ x_context.budget.qualitative =
                   BUDGET_QUALITATIVE_KEYWORDS[MinOf(matched)].category

-----------------------------------------------------------------------------
(* The seasonal boost and the occasion boost *)

\* the seasons of a candidate, canonicalized: those of its `season` (a
\* scalar or a list) and those of its list `seasons`
SeasonsOf(prod) ==
    Range(NormalizedItems(prod.season)) \cup Range(NormalizedItems(prod.seasons))

\* C25: in the pipeline a ranked candidate whose season or seasons hold the
\* current calendar season has exactly 0.10 in its final_score for it, next
\* to the similarity share, the preference share and the occasion boost,
\* and a candidate whose seasons do not hold it has nothing for it
C25_SeasonalBoost ==
    \A t \in Threads :
        (pc[t] = "done" /\ response[t].kind = "ok") =>
            \A i \in DOMAIN response[t].products :
                LET prod == response[t].products[i]
                    current == normalize_season_or_occasion(get_current_season(now[t]))
                IN prod.final_score =
                       prod.score * 70 + PreferenceTerm(prod, preferences[t])
                       + OccasionBoost(prod, now[t])
                       + (IF current \in SeasonsOf(prod) THEN 1000 ELSE 0)

\* the upcoming occasions of a month, by their canonical tokens: January
\* new year, February valentine, March mother's day, April ramadan and eid
\* in years divisible by 3, December christmas
CanonicalUpcoming(date) ==
    IF date.month = 1 THEN {"new-year"}
    ELSE IF date.month = 2 THEN {"valentine"}
    ELSE IF date.month = 3 THEN {"mothers-day"}
    ELSE IF date.month = 4 /\ date.year % 3 = 0 THEN {"ramadan", "eid-al-fitr"}
    ELSE IF date.month = 12 THEN {"christmas"}
    ELSE {}

\* the occasions of a candidate, canonicalized
OccasionsOf(prod) == Range(NormalizedItems(prod.occasion))

\* C26: a ranked candidate whose canonicalized occasions hold an upcoming
\* occasion of the current month has 0.15 in its final_score for it, once,
\* whatever spelling or separator the item uses ('new_year' in January),
\* and no other candidate has it
C26_OccasionBoost ==
    r_pc = "returned" =>
        \A j \in DOMAIN r_result :
            LET prod == r_result[j]
            IN prod.final_score =
                   prod.score * 70 + PreferenceTerm(prod, r_preferences)
                   + SeasonBoost(prod, r_now)
                   + (IF OccasionsOf(prod) \cap CanonicalUpcoming(r_now) # {}
                      THEN 1500 ELSE 0)

-----------------------------------------------------------------------------
(* Deleting a session while it is in use *)

\* C27: once delete_session(id) has returned True the id stays absent from
\* the store, whatever get_session, update_session or
\* add_message_to_history calls on the id run side by side with it
C27_DeletedStaysAbsent ==
    \A sid \in c_deleted : ~sm_sessions[sid].exists

\* C28: get_session on a session whose last access is more than 86400 s in
\* the past returns None and leaves its last_accessed as it is, whether or
\* not a sweep has run since the session expired
C28_ExpiredSessionIsAbsent ==
    [][\A sid \in Uuids :
          ( /\ sm_returned'.op = "get_session" /\ sm_returned'.id = sid
            /\ sm_sessions[sid].exists
            /\ sm_clock - sm_sessions[sid].last_accessed > DEFAULT_EXPIRY )
          => /\ sm_returned'.result = FALSE
             /\ sm_sessions'[sid].last_accessed = sm_sessions[sid].last_accessed
    ]_vars

-----------------------------------------------------------------------------
(* Results after the preference filter and the quality check *)

\* the candidate passes the quality check of lines 576-583
PassesQualityCheck(prod) ==
    is_meaningful_content(prod.name) /\ is_meaningful_content(prod.description)

\* C29: a request with a result count of at least 1 whose scored
\* candidates (those at or above the similarity floor) hold one that passes
\* the name and description quality check returns a product, whatever the
\* preferences are
C29_CandidatesGiveResults ==
    \A t \in Threads :
        ( /\ pc[t] = "done" /\ response[t].kind = "ok"
          /\ top_k[t] >= 1
          /\ \E i \in DOMAIN results[t] : PassesQualityCheck(results[t][i]) )
        => response[t].products # <<>>

\* what the extractor returns for the text request t built from its question
\* and its session's history
ExtractedOf(t) ==
    ExtractedContextOf(build_conversation_context(question[t], session_context[t]))

\* the keys the claim names as shared by the two records
SharedKeys == {"gender", "occasion", "interests"}

\* C30: in a successful response the returned context has every key of the
\* extractor's record; for gender, occasion and interests the value is the
\* merged preference record's when that record has the key, and the
\* extractor's otherwise; every other key of the extractor keeps the
\* extractor's value
C30_PreferencesReplaceExtracted ==
    \A t \in Threads :
        (pc[t] = "done" /\ response[t].kind = "ok") =>
            LET returned == response[t].context
                extracted == ExtractedOf(t)
            IN /\ ContextKeys \subseteq DOMAIN returned
               /\ \A k \in SharedKeys :
                     returned[k] = IF k \in PresentKeys(preferences[t])
                                   THEN preferences[t][k] ELSE extracted[k]
               /\ \A k \in ContextKeys \ SharedKeys : returned[k] = extracted[k]

\* C30: a successful answer to the request for a perfume for a girl: the
\* extractor inferred the gender from the recipient and found no interest,
\* the preference record holds a gender and an interest and no occasion, and
\* the returned context has the record's gender and interest beside the
\* extractor's recipient and occasion
C30_Witness ==
    \E t \in Threads :
        /\ pc[t] = "done" /\ response[t].kind = "ok"
        /\ question[t] = "q_girl_perfume"
        /\ ExtractedOf(t).gender = "untha" /\ ExtractedOf(t).interests = {}
        /\ PresentKeys(preferences[t]) = {"gender", "interests"}
        /\ response[t].context.gender = s_female
        /\ response[t].context.interests = {"perfumes"}
        /\ response[t].context.recipient_type = "bint"
        /\ response[t].context.occasion = None

=============================================================================
